---- MODULE Spec2Model ----
(***************************************************************************)
(* A model of the source-map crate: the Base64-VLQ encoder, the SourceMap  *)
(* builder (src/src/lib.rs), the text sinks that drive it (ToStringer in   *)
(* src/src/lib.rs, StringWithSourceMap in src/src/to_string.rs) and the    *)
(* JSON / inline serialisation.                                            *)
(*                                                                         *)
(* Text is a sequence of characters.  A character is a one-character       *)
(* string; the two non-ASCII characters the model uses are named by their  *)
(* code point ("U+00E9", "U+1F600").  Option<T> is a sequence of length at *)
(* most one: None is << >>, Some(x) is <<x>>.                              *)
(***************************************************************************)
EXTENDS Integers, Sequences, FiniteSets, TLC

VARIABLES
    source_map,       \* the SourceMap struct (lib.rs:154-169), a record of its fields
    out,              \* the generated text the sink writes to (ToStringer.0)
    via,              \* which interface the caller drives: "SourceMap" or "ToStringer"
    overflow_checks,  \* build profile: "on" panics on integer overflow, "off" wraps;
                      \* "unobserved" until the run's first overflow shows which
    panicked,         \* a call has panicked (unwrap on None, overflow check)
    calls,            \* history: the builder calls made so far, in order
    result,           \* Option: the text a consuming call (to_string, ...) returned
    vlq,              \* a run of the VLQ encoder alone: value, buffer before, buffer after
    fs,               \* a MapFileStore<WithPathMap> (filesystem.rs:53-57): sources, mappings
    fs_log,           \* history: the handles the store's allocations returned, in order
    global_ids,       \* SOURCE_ID_COUNTER (source_id.rs:19) and the handles SourceId::new returned
    conv,             \* a position or span conversion: its input and what each step returned
    max_counter,      \* a MaxCounter (to_string.rs:235-238) and the bytes appended to it
    text_counter,     \* a Counter and a plain String sink fed the same calls, and the pieces pushed
    endpoint,         \* a conversion of a length or offset into a 32-bit span endpoint
    demo              \* the whitespace-removing generator: its input and its splitting iterator

builder_vars == <<source_map, out, via, overflow_checks, panicked, calls, result, vlq>>

sink_vars == <<text_counter, endpoint, demo>>

store_vars == <<fs, fs_log, global_ids, conv, max_counter, text_counter, endpoint, demo>>

vars == <<source_map, out, via, overflow_checks, panicked, calls, result, vlq,
          fs, fs_log, global_ids, conv, max_counter, text_counter, endpoint, demo>>

(***************************************************************************)
(* Bounds of the model.                                                    *)
(***************************************************************************)
MaxCalls == 4
MaxVlq == 70
MaxFsCalls == 3
MaxSourceIdCalls == 258
MaxPieces == 4
MaxGlobalCalls == 4
GlobalManyCalls == 253

(***************************************************************************)
(* Text and characters.                                                    *)
(***************************************************************************)
Chars(s) == [i \in 1..Len(s) |-> SubSeq(s, i, i)]

None == << >>
Some(x) == <<x>>

\* The printable ASCII characters, code points 32 to 126.  A TLA+ string cannot
\* hold the grave accent (96): it is named by its code point.
Printable ==
    Chars(" !\"#$%&'()*+,-./0123456789:;<=>?@ABCDEFGHIJKLMNOPQRSTUVWXYZ[\\]^_")
        \o <<"U+0060">> \o Chars("abcdefghijklmnopqrstuvwxyz{|}~")

\* The Unicode scalar value of a character.
CodePoint(c) ==
    IF c = "\n" THEN 10
    ELSE IF c = "\r" THEN 13
    ELSE IF c = "U+00E9" THEN 233
    ELSE IF c = "U+1F600" THEN 128512
    ELSE 31 + (CHOOSE i \in 1..Len(Printable) : Printable[i] = c)

len_utf16(chr) == IF CodePoint(chr) < 65536 THEN 1 ELSE 2

len_utf8(chr) ==
    LET cp == CodePoint(chr)
    IN  IF cp < 128 THEN 1 ELSE IF cp < 2048 THEN 2 ELSE IF cp < 65536 THEN 3 ELSE 4

\* The UTF-8 bytes of one character, and of a text (what String holds).
Utf8OfChar(c) ==
    LET cp == CodePoint(c)
    IN  IF cp < 128 THEN <<cp>>
        ELSE IF cp < 2048 THEN <<192 + (cp \div 64), 128 + (cp % 64)>>
        ELSE IF cp < 65536
             THEN <<224 + (cp \div 4096), 128 + ((cp \div 64) % 64), 128 + (cp % 64)>>
        ELSE <<240 + (cp \div 262144), 128 + ((cp \div 4096) % 64),
               128 + ((cp \div 64) % 64), 128 + (cp % 64)>>

\* The concatenation of parts[lo..hi], by halves (the recursion stays shallow).
RECURSIVE Concat(_, _, _)
Concat(parts, lo, hi) ==
    IF lo > hi THEN << >>
    ELSE IF lo = hi THEN parts[lo]
    ELSE Concat(parts, lo, (lo + hi) \div 2) \o Concat(parts, ((lo + hi) \div 2) + 1, hi)

\* String::as_bytes
as_bytes(text) == Concat([i \in 1..Len(text) |-> Utf8OfChar(text[i])], 1, Len(text))

\* str::replace(from: char, to: &str)
replace(text, from, to) ==
    Concat([i \in 1..Len(text) |-> IF text[i] = from THEN to ELSE <<text[i]>>], 1, Len(text))

(***************************************************************************)
(* Base64-VLQ (lib.rs:129-151).                                            *)
(***************************************************************************)
BASE64_ALPHABET ==
    Chars("ABCDEFGHIJKLMNOPQRSTUVWXYZabcdefghijklmnopqrstuvwxyz0123456789+/")

(***************************************************************************)
(* isize (lib.rs:133 "mut value: isize"): a two's-complement word of       *)
(* isize_BITS bits, least significant bit first.                           *)
(***************************************************************************)
isize_BITS == 64

\* The word of an integer n with |n| < 2^31 ("as isize" on the small values
\* the builder computes).
RECURSIVE isize(_)
isize(n) ==
    IF n >= 0
    THEN [i \in 1..isize_BITS |-> IF i > 31 THEN 0 ELSE (n \div (2 ^ (i - 1))) % 2]
    ELSE LET bits == isize(-n)
             low == CHOOSE i \in 1..isize_BITS :
                        bits[i] = 1 /\ \A j \in 1..(i - 1) : bits[j] = 0
         IN  [i \in 1..isize_BITS |-> IF i <= low THEN bits[i] ELSE 1 - bits[i]]

isize_MIN == [i \in 1..isize_BITS |-> IF i = isize_BITS THEN 1 ELSE 0]

isize_MAX == [i \in 1..isize_BITS |-> IF i = isize_BITS THEN 0 ELSE 1]

\* value.is_negative()
is_negative(value) == value[isize_BITS] = 1

\* -value with the overflow checks off: two's complement, isize::MIN stays.
wrapping_neg(value) ==
    LET ones == {i \in 1..isize_BITS : value[i] = 1}
    IN  IF ones = {} THEN value
        ELSE LET low == CHOOSE i \in ones : \A j \in ones : i <= j
             IN  [i \in 1..isize_BITS |-> IF i <= low THEN value[i] ELSE 1 - value[i]]

\* value << n: the bits shifted out at the top are lost.
shl(value, n) == [i \in 1..isize_BITS |-> IF i <= n THEN 0 ELSE value[i - n]]

\* value >> n on a signed word: the sign bit is shifted in.
shr(value, n) ==
    [i \in 1..isize_BITS |-> IF i + n <= isize_BITS THEN value[i + n]
                             ELSE value[isize_BITS]]

\* value | 1
bitor_one(value) == [value EXCEPT ![1] = 1]

\* value & 31, as a number.
bitand_31(value) ==
    value[1] + (2 * value[2]) + (4 * value[3]) + (8 * value[4]) + (16 * value[5])

\* value > 0
is_positive(value) == value[isize_BITS] = 0 /\ \E i \in 1..isize_BITS : value[i] = 1

\* Mutant: the continuation bit is never set.
RECURSIVE vlq_loop_without_continuation(_, _)
vlq_loop_without_continuation(buf, value) ==
    LET rest == shr(value, 5)
        pushed == Append(buf, BASE64_ALPHABET[bitand_31(value) + 1])
    IN  IF ~is_positive(rest) THEN pushed
        ELSE vlq_loop_without_continuation(pushed, rest)

\* lib.rs:140-150: the loop of vlq_encode_integer_to_buffer.
RECURSIVE vlq_loop(_, _)
vlq_loop(buf, value) ==
    LET low == bitand_31(value)
        rest == shr(value, 5)
        clamped == IF is_positive(rest) THEN low + 32 ELSE low
        pushed == Append(buf, BASE64_ALPHABET[clamped + 1])
    IN  IF ~is_positive(rest) THEN pushed ELSE vlq_loop(pushed, rest)

\* lib.rs:135: -value overflows on isize::MIN, a panic when the build checks
\* overflow.
vlq_encode_overflows(value) == value = isize_MIN

\* Mutant: the sign bit of a negative value is not set.
vlq_encode_without_sign(buf, value) ==
    vlq_loop(buf, IF is_negative(value) THEN shl(wrapping_neg(value), 1)
                  ELSE shl(value, 1))

\* lib.rs:133-151
vlq_encode_integer_to_buffer(buf, value) ==
    vlq_loop(buf, IF is_negative(value) THEN bitor_one(shl(wrapping_neg(value), 1))
                  ELSE shl(value, 1))

(***************************************************************************)
(* The process-wide table SOURCE_IDS (lib.rs:10-13): the sources the       *)
(* caller registered, by SourceId.  Ids 1 and 2 are registered; the null   *)
(* id 0 is not.                                                            *)
(***************************************************************************)
SOURCE_IDS ==
    (1 :> [name |-> Chars("src\\a.ts"), content |-> Some(Chars("x\r\ny \"z\""))]) @@
    (2 :> [name |-> Chars("b.ts"), content |-> None])

null == 0

(***************************************************************************)
(* SourceMap (lib.rs:154-268).                                             *)
(***************************************************************************)
new ==
    [ buf |-> << >>, line |-> 0, last_line |-> None, column |-> 0,
      last_column |-> 0, last_source_line |-> 0, last_source_column |-> 0,
      sources |-> << >>, sources_map |-> << >> ]

\* Mutant: the separator is written whenever a mapping came before, also on
\* a new output line.
add_mapping_separator_always(sm) ==
    IF sm.last_line # None
    THEN [sm EXCEPT !.buf = Append(@, ","), !.last_line = Some(sm.line)]
    ELSE [sm EXCEPT !.last_line = Some(sm.line)]

\* lib.rs:193-200: the segment separator.
add_mapping_separator(sm) ==
    IF sm.last_line # None
    THEN [sm EXCEPT !.buf = IF sm.last_line[1] = sm.line THEN Append(@, ",") ELSE @,
                    !.last_line = Some(sm.line)]
    ELSE [sm EXCEPT !.last_line = Some(sm.line)]

\* lib.rs:201-204: the output column, relative to the last mapping's.
add_mapping_column(sm) ==
    [sm EXCEPT !.buf = vlq_encode_integer_to_buffer(@, isize(sm.column - sm.last_column))]

\* lib.rs:210: SOURCE_IDS.read().unwrap().get(&source_id).unwrap() panics
\* when the source is neither known to the map nor registered.
add_mapping_panics(sm, source_id) ==
    /\ source_id \notin DOMAIN sm.sources_map
    /\ source_id \notin DOMAIN SOURCE_IDS

\* Mutant: a source that is already in the list is listed again.
add_mapping_source_listed_again(sm, source_id) ==
    LET sources == Append(sm.sources, SOURCE_IDS[source_id])
        idx == (Len(sources) - 1) % 256
    IN  [sm EXCEPT !.sources = sources,
                   !.sources_map = (source_id :> idx) @@ @,
                   !.buf = vlq_encode_integer_to_buffer(@, isize(idx))]

\* Mutant: the source's position is written relative to the position the
\* last listed source has, as a delta onto the newest source.
add_mapping_source_relative(sm, source_id) ==
    IF source_id \in DOMAIN sm.sources_map
    THEN [sm EXCEPT !.buf = vlq_encode_integer_to_buffer(
                                @, isize(sm.sources_map[source_id] - (Len(sm.sources) - 1)))]
    ELSE LET sources == Append(sm.sources, SOURCE_IDS[source_id])
             idx == (Len(sources) - 1) % 256
         IN  [sm EXCEPT !.sources = sources,
                        !.sources_map = (source_id :> idx) @@ @,
                        !.buf = vlq_encode_integer_to_buffer(@, isize(Len(sm.sources)))]

\* lib.rs:205-216: the source's position in the sources list.
add_mapping_source(sm, source_id) ==
    IF source_id \in DOMAIN sm.sources_map
    THEN [sm EXCEPT !.buf = vlq_encode_integer_to_buffer(@, isize(sm.sources_map[source_id]))]
    ELSE LET sources == Append(sm.sources, SOURCE_IDS[source_id])
             idx == (Len(sources) - 1) % 256
         IN  [sm EXCEPT !.sources = sources,
                        !.sources_map = (source_id :> idx) @@ @,
                        !.buf = vlq_encode_integer_to_buffer(@, isize(idx))]

\* lib.rs:217-227: source line and column, relative to the last mapping's.
add_mapping_position(sm, original_line, original_column) ==
    [sm EXCEPT
        !.buf = vlq_encode_integer_to_buffer(
                    vlq_encode_integer_to_buffer(
                        @, isize(original_line - 1 - sm.last_source_line)),
                    isize(original_column - sm.last_source_column)),
        !.last_source_line = ((original_line % 65536) - 1) % 65536,
        !.last_source_column = original_column,
        !.last_column = sm.column]

\* lib.rs:187-228.  What the call leaves behind when it panics at line 210 is
\* the separator and the column field already written.
add_mapping(sm, original_line, original_column, source_id) ==
    LET started == add_mapping_column(add_mapping_separator(sm))
    IN  IF add_mapping_panics(sm, source_id) THEN started
        ELSE add_mapping_position(add_mapping_source(started, source_id),
                                  original_line, original_column)

\* Mutant: the line is counted but no ';' is written.
add_new_line_without_break(sm) ==
    [sm EXCEPT !.line = (@ + 1) % 65536, !.column = 0, !.last_column = 0]

\* lib.rs:230-235
add_new_line(sm) ==
    [sm EXCEPT !.line = (@ + 1) % 65536,
               !.buf = Append(@, ";"),
               !.column = 0,
               !.last_column = 0]

\* lib.rs:237-239: self.column += length as u8
add_to_column_overflows(sm, length) == sm.column + (length % 256) > 255

add_to_column(sm, length) ==
    [sm EXCEPT !.column = (@ + (length % 256)) % 256]

\* lib.rs:249-252: one entry of the sources array.
to_string_source_name(source) ==
    <<"\"">> \o replace(source.name, "\\", Chars("\\\\")) \o <<"\"">>

\* lib.rs:253-257: one entry of the sourcesContent array.
to_string_source_content(source) ==
    <<"\"">>
    \o (IF source.content # None
        THEN replace(replace(source.content[1], "\n", Chars("\\n")), "\r", << >>)
        ELSE << >>)
    \o <<"\"">>

\* Mutant: a separator after every entry, the last one too.
to_string_separator_trailing(idx, len) == IF idx < len THEN <<",">> ELSE << >>

\* lib.rs:258-261: the separator after entry idx (zero-based) of len entries.
to_string_separator(idx, len) == IF idx < len - 1 THEN <<",">> ELSE << >>

\* lib.rs:249-262: the loop over self.sources.iter().enumerate(); yields
\* <<source_names, source_contents>>.
RECURSIVE to_string_loop(_, _, _, _)
to_string_loop(sources, idx, source_names, source_contents) ==
    IF idx >= Len(sources) THEN <<source_names, source_contents>>
    ELSE to_string_loop(
            sources, idx + 1,
            source_names \o to_string_source_name(sources[idx + 1])
                         \o to_string_separator(idx, Len(sources)),
            source_contents \o to_string_source_content(sources[idx + 1])
                            \o to_string_separator(idx, Len(sources)))

\* lib.rs:263-266: the format! template.
to_string_format(source_names, source_contents, buf) ==
    Chars("{\"version\":3,\"sourceRoot\":\"\",\"sources\":[") \o source_names
    \o Chars("],\"sourcesContent\":[") \o source_contents
    \o Chars("],\"names\":[],\"mappings\":\"") \o buf \o Chars("\"}")

\* lib.rs:246-267
to_string(sm) ==
    LET lists == to_string_loop(sm.sources, 0, << >>, << >>)
    IN  to_string_format(lists[1], lists[2], sm.buf)

(***************************************************************************)
(* Standard Base64 with padding, as base64::prelude::BASE64_STANDARD       *)
(* encodes (to_string.rs:73-75, to_string.rs:148-150).                     *)
(***************************************************************************)
Base64Digit(n) == BASE64_ALPHABET[n + 1]

\* One group of up to three bytes: four digits, padded with '='.
Base64Group(bytes) ==
    IF Len(bytes) = 1
    THEN <<Base64Digit(bytes[1] \div 4), Base64Digit((bytes[1] % 4) * 16), "=", "=">>
    ELSE IF Len(bytes) = 2
    THEN <<Base64Digit(bytes[1] \div 4),
           Base64Digit(((bytes[1] % 4) * 16) + (bytes[2] \div 16)),
           Base64Digit((bytes[2] % 16) * 4), "=">>
    ELSE <<Base64Digit(bytes[1] \div 4),
           Base64Digit(((bytes[1] % 4) * 16) + (bytes[2] \div 16)),
           Base64Digit(((bytes[2] % 16) * 4) + (bytes[3] \div 64)),
           Base64Digit(bytes[3] % 64)>>

BASE64_STANDARD_encode(bytes) ==
    LET groups == (Len(bytes) + 2) \div 3
        last(g) == IF 3 * g < Len(bytes) THEN 3 * g ELSE Len(bytes)
    IN  Concat([g \in 1..groups |-> Base64Group(SubSeq(bytes, (3 * g) - 2, last(g)))],
               1, groups)

\* to_string.rs:71-72
SOURCE_MAPPING_URL == Chars("\n//# sourceMappingURL=data:application/json;base64,")

\* Mutant: the comment line is ended with a newline.
build_with_trailing_new_line(source, sm) ==
    source \o SOURCE_MAPPING_URL \o BASE64_STANDARD_encode(as_bytes(to_string(sm)))
           \o <<"\n">>

\* to_string.rs:64-77 (and 135-152): the generated text, the inline URL prefix,
\* the Base64 of the map's JSON.  The JSON is the one SourceMap serialises to.
build_with_inline_source_map(source, sm) ==
    source \o SOURCE_MAPPING_URL \o BASE64_STANDARD_encode(as_bytes(to_string(sm)))

(***************************************************************************)
(* ToStringer with a source map (lib.rs:70-127): each operation yields     *)
(* <<buffer, source map>>.                                                 *)
(***************************************************************************)
\* slice.chars().count()
chars_count(slice) == Len(slice)

push(buf, sm, chr) == <<Append(buf, chr), add_to_column(sm, len_utf16(chr))>>

push_new_line(buf, sm) == <<Append(buf, "\n"), add_new_line(sm)>>

push_str(buf, sm, slice) == <<buf \o slice, add_to_column(sm, chars_count(slice))>>

\* Mutant: a slice that holds line feeds starts one new line.
push_str_new_lines_once(sm, slice) ==
    IF \E i \in 1..Len(slice) : slice[i] = "\n" THEN add_new_line(sm) ELSE sm

\* lib.rs:107-111: one add_new_line per '\n' of the slice.
RECURSIVE push_str_new_lines(_, _)
push_str_new_lines(sm, slice) ==
    IF slice = << >> THEN sm
    ELSE push_str_new_lines(IF Head(slice) = "\n" THEN add_new_line(sm) ELSE sm,
                            Tail(slice))

push_str_contains_new_line(buf, sm, slice) ==
    <<buf \o slice, push_str_new_lines(sm, slice)>>

(***************************************************************************)
(* History: one entry per call the caller made, with what the builder held *)
(* when an add_mapping call arrived.                                       *)
(***************************************************************************)
MappingCall(sm, original_line, original_column, source_id) ==
    [op |-> "add_mapping", line |-> sm.line, column |-> sm.column,
     original_line |-> original_line, original_column |-> original_column,
     source_id |-> source_id]

NewLineCall == [op |-> "add_new_line"]

ColumnCall(length) == [op |-> "add_to_column", length |-> length]

\* A sink call and the text it wrote.
TextCall(name, text) == [op |-> name, text |-> text]

CountOf(text, chr) == Cardinality({i \in 1..Len(text) : text[i] = chr})

\* The add_new_line calls a call of the history makes on the builder: the call
\* itself, one from push_new_line, one per '\n' from push_str_contains_new_line.
NewLineCallsOf(call) ==
    IF call.op \in {"add_new_line", "push_new_line"} THEN 1
    ELSE IF call.op = "push_str_contains_new_line" THEN CountOf(call.text, "\n")
    ELSE 0

RECURSIVE NewLineCalls(_)
NewLineCalls(history) ==
    IF history = << >> THEN 0
    ELSE NewLineCallsOf(Head(history)) + NewLineCalls(Tail(history))

(***************************************************************************)
(* LineStarts (lines_columns_indexes.rs:1-60): the byte offsets at which   *)
(* the lines of a text start.  Offsets are byte offsets into the UTF-8     *)
(* text; the line feed is one byte that occurs in no other character.      *)
(***************************************************************************)
\* str::len: the length in bytes.
str_len(text) == Len(as_bytes(text))

\* The elements of a set of numbers in increasing order.
Sorted(set) ==
    [k \in 1..Cardinality(set) |->
        CHOOSE x \in set : Cardinality({y \in set : y < x}) = k - 1]

\* source.match_indices('\n').map(|(i, _)| i + 1 + start): for each line feed,
\* in order, the offset right after it (i counts bytes from 0).
after_new_lines(text, start) ==
    LET bytes == as_bytes(text)
    IN  Sorted({i + start : i \in {j \in 1..Len(bytes) : bytes[j] = 10}})

\* Mutant: the offsets of the line feeds themselves.
LineStarts_new_at_new_lines(source) ==
    <<0>> \o [k \in 1..Len(after_new_lines(source, 0)) |-> after_new_lines(source, 0)[k] - 1]

\* Mutant: the last line feed is missed.
LineStarts_new_missing_last(source) ==
    <<0>> \o SubSeq(after_new_lines(source, 0), 1, Len(after_new_lines(source, 0)) - 1)

\* lines_columns_indexes.rs:7-13
LineStarts_new(source) == <<0>> \o after_new_lines(source, 0)

\* Mutant: the offsets are not moved by start.
LineStarts_append_from_zero(line_starts, start, appended) ==
    line_starts \o after_new_lines(appended, 0)

\* lines_columns_indexes.rs:15-18
LineStarts_append(line_starts, start, appended) ==
    line_starts \o after_new_lines(appended, start)

(***************************************************************************)
(* The scoped registry MapFileStore<WithPathMap> (filesystem.rs:53-57,     *)
(* 121-215): sources is the vector of Source { path, content, line_starts }*)
(* and mappings the map from path to SourceId.  A SourceId holds a u8      *)
(* (source_id.rs:23).                                                      *)
(***************************************************************************)
u8_MAX == 255

MapFileStore_default == [sources |-> << >>, mappings |-> << >>]

\* filesystem.rs:160-164: HashMap::insert replaces the entry of a known path.
set_path(mappings, path, source) == (path :> source) @@ mappings

\* filesystem.rs:134: the conversion of sources.len() to the u8 of SourceId
\* fails (unwrap panics) beyond u8::MAX.
new_source_id_panics(store) == Len(store.sources) + 1 > u8_MAX

\* filesystem.rs:122-139.  The source is pushed before the conversion that can
\* panic.
new_source_id_with_line_starts(store, path, content) ==
    LET line_starts == LineStarts_new(content)
        sources == Append(store.sources,
                          [path |-> path, content |-> content, line_starts |-> line_starts])
        source_id == Len(sources)
    IN  IF new_source_id_panics(store)
        THEN [store |-> [store EXCEPT !.sources = sources], returned |-> None]
        ELSE [store |-> [sources |-> sources,
                         mappings |-> set_path(store.mappings, path, source_id)],
              returned |-> Some(<<source_id, line_starts>>)]

\* filesystem.rs:146, 172, 179: self.sources[id.0 as usize - 1] panics unless
\* id is the handle of a source of this store (for id 0 the subtraction
\* overflows, or wraps to an index out of bounds).
source_index_panics(store, id) == id \notin 1..Len(store.sources)

\* Mutant: a handle past the end reaches the last source.
get_source_by_id_clamped(store, source_id) ==
    IF store.sources = << >> \/ source_id = 0 THEN None
    ELSE Some(store.sources[IF source_id > Len(store.sources) THEN Len(store.sources)
                            ELSE source_id])

\* filesystem.rs:141-147: the source the callback is run on; None when
\* indexing panics.
get_source_by_id(store, source_id) ==
    IF source_index_panics(store, source_id) THEN None ELSE Some(store.sources[source_id])

\* filesystem.rs:171-175
update_file(store, id, content) ==
    [store EXCEPT !.sources[id].line_starts = LineStarts_new(content),
                  !.sources[id].content = content]

\* Mutant: the content is replaced, the index kept.
append_to_file_keeping_index(store, id, content) ==
    [store |-> [store EXCEPT !.sources[id].content = @ \o content],
     returned |-> <<str_len(store.sources[id].content),
                    str_len(store.sources[id].content \o content)>>]

\* filesystem.rs:178-184: the store after the call and the (old, new) lengths.
append_to_file(store, id, content) ==
    LET existing == store.sources[id]
        old_length == str_len(existing.content)
    IN  [store |-> [store EXCEPT
                       !.sources[id].line_starts =
                           LineStarts_append(existing.line_starts, old_length, content),
                       !.sources[id].content = existing.content \o content],
         returned |-> <<old_length, str_len(existing.content \o content)>>]

\* filesystem.rs:192, 202: self.mappings.0[path] panics on an unknown path.
path_index_panics(store, path) == path \notin DOMAIN store.mappings

\* filesystem.rs:191-193
update_file_at_path(store, path, content) ==
    update_file(store, store.mappings[path], content)

\* filesystem.rs:201-206: the source takes the new path; the map's entry for
\* from is removed and inserted again (to is not entered).
change_file_path(store, from, to) ==
    LET id == store.mappings[from]
        removed == [p \in (DOMAIN store.mappings) \ {from} |-> store.mappings[p]]
    IN  [sources |-> [store.sources EXCEPT ![id].path = to],
         mappings |-> set_path(removed, from, id)]

\* filesystem.rs:208-214: the store after the call and what the allocation, if
\* one was made, returned.
create_or_update_file_at_path(store, path, content) ==
    IF path \in DOMAIN store.mappings
    THEN [store |-> update_file(store, store.mappings[path], content), returned |-> None]
    ELSE new_source_id_with_line_starts(store, path, content)

(***************************************************************************)
(* Inputs the callers draw from.                                           *)
(***************************************************************************)
\* add_mapping on the builder: <<original_line, original_column, source_id>>
MappingInputs == {<<1, 0>>, <<2, 3>>} \X {null, 1, 2}
\* add_mapping through the sink
SinkMappingInputs == {<<<<1, 0>>, 1>>, <<<<2, 3>>, 2>>}
\* add_mapping at the starts of the first two source lines, within the first
\* line, and on a source line past the u16 range
SegmentInputs == {<<1, 0>>, <<2, 0>>, <<1, 2>>, <<65537, 0>>} \X {1, 2}
LengthInputs == {1, 255}
CharInputs == {"a", "U+1F600"}
StrInputs == {Chars("ab")}
StrNewLineInputs == {Chars("a\nbc")}
\* Values around zero, the values of the repository's test, and the ends of
\* the isize range.
VlqSmallInputs == (-MaxVlq..MaxVlq) \cup {123, -123, 1024, 123456789, -123456789}
VlqLargeInputs ==
    LET quarter == [i \in 1..isize_BITS |-> IF i = isize_BITS - 1 THEN 1 ELSE 0]
        below == [i \in 1..isize_BITS |-> IF i < isize_BITS - 1 THEN 1 ELSE 0]
    IN  {quarter, below, wrapping_neg(quarter), wrapping_neg(below),
         isize_MAX, isize_MIN, wrapping_neg(isize_MAX)}
\* The ends of the 32-bit range: 2^31 - 1 and -2^31.
VlqRangeInputs ==
    LET most == [i \in 1..isize_BITS |-> IF i <= 31 THEN 1 ELSE 0]
    IN  {most, wrapping_neg([i \in 1..isize_BITS |-> IF i = 32 THEN 1 ELSE 0]),
         wrapping_neg(most)}
VlqInputs == {isize(n) : n \in VlqSmallInputs} \cup VlqLargeInputs \cup VlqRangeInputs
VlqBuffers == {<< >>, Chars("AAAA,")}

\* The overflow checks a call adding length to the column can run under: an
\* overflow shows the build profile, and every later call runs under the same.
ObservedChecks(sm, length) ==
    IF add_to_column_overflows(sm, length) /\ overflow_checks = "unobserved"
    THEN {"on", "off"}
    ELSE {overflow_checks}

(***************************************************************************)
(* The process-wide handles (source_id.rs:11-60, lib.rs:10-29):            *)
(* SOURCE_ID_COUNTER is an AtomicU8 that starts at 1, SourceId::new takes  *)
(* the counter's value with fetch_add(1), which wraps around on overflow,  *)
(* and then enters the source in SOURCE_IDS_TO_FILES under the write lock. *)
(* A thread is between the two steps while its handle is pending.          *)
(***************************************************************************)
Threads == {1, 2}

SourceIdsInit ==
    [counter |-> 1,
     files |-> << >>,
     pending |-> [t \in Threads |-> None],
     returned |-> [id \in 0..u8_MAX |-> 0],
     calls |-> 0,
     writer |-> 0,
     readers |-> {},
     args |-> [t \in Threads |-> None],
     reading |-> [t \in Threads |-> None],
     log |-> << >>,
     looked |-> None]

\* source_id.rs:51 (lib.rs:22): SOURCE_ID_COUNTER.fetch_add(1, Ordering::SeqCst)
\* returns the value before the addition.
fetch_add(ids, thread) ==
    [ids EXCEPT !.pending[thread] = Some(ids.counter),
                !.counter = (@ + 1) % (u8_MAX + 1),
                !.calls = @ + 1]

\* source_id.rs:53-58: the source is entered under the handle and the handle
\* returned.
insert_and_return(ids, thread, path, content) ==
    LET source_id == ids.pending[thread][1]
    IN  [ids EXCEPT !.files = (source_id :> <<path, content>>) @@ @,
                    !.returned[source_id] = @ + 1,
                    !.pending[thread] = None]

(***************************************************************************)
(* The store, the global counter, the conversions and the counter before   *)
(* any call on them.                                                       *)
(***************************************************************************)
\* to_string.rs:235-243
MaxCounter_new(max) == [acc |-> 0, max |-> max]

\* A fresh bounded counter, with what has been appended to it and polled
\* from it so far.
MaxCounterFresh(max) ==
    [counter |-> MaxCounter_new(max), appended |-> 0, halted |-> FALSE,
     after_halt |-> 0, calls |-> 0, last |-> "new"]

\* The log of a store whose allocations so far returned the handles allocated.
FsLog(allocated) == [allocated |-> allocated, calls |-> 0, lookup |-> None, read |-> None]

\* to_string.rs:201-208: Counter::new() beside String::new(), nothing pushed.
CounterFresh == [count |-> 0, string |-> << >>, pieces |-> << >>]

\* No endpoint has been converted yet: the operation, its arguments, whether
\* it returned or panicked, and the u32 endpoints it returned.
NoEndpoint == [op |-> "none", input |-> << >>, outcome |-> "none", returned |-> << >>]

\* The generator has not been given an input: there is nothing to split.
NoDemo == [string |-> << >>, last_match |-> 0, index |-> 0, exhausted |-> TRUE]

SinkInit ==
    /\ text_counter = CounterFresh
    /\ endpoint = NoEndpoint
    /\ demo = NoDemo

\* No conversion has been asked for yet.
NoConversion ==
    [op |-> "none", encoding |-> "none", source |-> 0,
     scalar |-> << >>, line_column |-> << >>, returned |-> << >>]

StoreInit ==
    /\ fs = MapFileStore_default
    /\ fs_log = FsLog(<< >>)
    /\ global_ids = SourceIdsInit
    /\ conv = NoConversion
    /\ max_counter = MaxCounterFresh(0)
    /\ SinkInit

(***************************************************************************)
(* Actions: direct calls on the builder.                                   *)
(***************************************************************************)
Live == ~panicked /\ result = None /\ Len(calls) < MaxCalls

CallAddMapping(pos, source_id) ==
    /\ Live
    /\ \/ via = "SourceMap" /\ <<pos, source_id>> \in MappingInputs \cup SegmentInputs
       \/ via = "ToStringer" /\ <<pos, source_id>> \in SinkMappingInputs
    /\ source_map' = add_mapping(source_map, pos[1], pos[2], source_id)
    /\ panicked' = add_mapping_panics(source_map, source_id)
    /\ calls' = Append(calls, MappingCall(source_map, pos[1], pos[2], source_id))
    /\ UNCHANGED <<out, via, overflow_checks, result, vlq>>
    /\ UNCHANGED store_vars

CallAddNewLine ==
    /\ Live /\ via = "SourceMap"
    /\ source_map' = add_new_line(source_map)
    /\ calls' = Append(calls, NewLineCall)
    /\ UNCHANGED <<out, via, overflow_checks, panicked, result, vlq>>
    /\ UNCHANGED store_vars

CallAddToColumn(length) ==
    /\ Live /\ via = "SourceMap"
    /\ \E checks \in ObservedChecks(source_map, length) :
          /\ overflow_checks' = checks
          /\ IF checks = "on" /\ add_to_column_overflows(source_map, length)
             THEN panicked' = TRUE /\ UNCHANGED source_map
             ELSE source_map' = add_to_column(source_map, length) /\ UNCHANGED panicked
    /\ calls' = Append(calls, ColumnCall(length))
    /\ UNCHANGED <<out, via, result, vlq>>
    /\ UNCHANGED store_vars

(***************************************************************************)
(* Actions: calls on the sink.  ToStringer::add_mapping (lib.rs:117-126)   *)
(* hands the call to the builder: CallAddMapping serves both interfaces.   *)
(* A sink call that overflows the column under overflow checks panics in   *)
(* add_to_column, before the text is written.                              *)
(***************************************************************************)
CallPush(chr) ==
    /\ Live /\ via = "ToStringer"
    /\ \E checks \in ObservedChecks(source_map, len_utf16(chr)) :
          /\ overflow_checks' = checks
          /\ IF checks = "on" /\ add_to_column_overflows(source_map, len_utf16(chr))
             THEN panicked' = TRUE /\ UNCHANGED <<out, source_map>>
             ELSE /\ out' = push(out, source_map, chr)[1]
                  /\ source_map' = push(out, source_map, chr)[2]
                  /\ UNCHANGED panicked
    /\ calls' = Append(calls, TextCall("push", <<chr>>))
    /\ UNCHANGED <<via, result, vlq>>
    /\ UNCHANGED store_vars

CallPushNewLine ==
    /\ Live /\ via = "ToStringer"
    /\ out' = push_new_line(out, source_map)[1]
    /\ source_map' = push_new_line(out, source_map)[2]
    /\ calls' = Append(calls, TextCall("push_new_line", <<"\n">>))
    /\ UNCHANGED <<via, overflow_checks, panicked, result, vlq>>
    /\ UNCHANGED store_vars

CallPushStr(slice) ==
    /\ Live /\ via = "ToStringer"
    /\ \E checks \in ObservedChecks(source_map, chars_count(slice)) :
          /\ overflow_checks' = checks
          /\ IF checks = "on" /\ add_to_column_overflows(source_map, chars_count(slice))
             THEN panicked' = TRUE /\ UNCHANGED <<out, source_map>>
             ELSE /\ out' = push_str(out, source_map, slice)[1]
                  /\ source_map' = push_str(out, source_map, slice)[2]
                  /\ UNCHANGED panicked
    /\ calls' = Append(calls, TextCall("push_str", slice))
    /\ UNCHANGED <<via, result, vlq>>
    /\ UNCHANGED store_vars

CallPushStrContainsNewLine(slice) ==
    /\ Live /\ via = "ToStringer"
    /\ out' = push_str_contains_new_line(out, source_map, slice)[1]
    /\ source_map' = push_str_contains_new_line(out, source_map, slice)[2]
    /\ calls' = Append(calls, TextCall("push_str_contains_new_line", slice))
    /\ UNCHANGED <<via, overflow_checks, panicked, result, vlq>>
    /\ UNCHANGED store_vars

(***************************************************************************)
(* Actions: the calls that consume the builder.                            *)
(***************************************************************************)
CallToString ==
    /\ ~panicked /\ result = None
    /\ result' = Some([op |-> "to_string", text |-> to_string(source_map)])
    /\ UNCHANGED <<source_map, out, via, overflow_checks, panicked, calls, vlq>>
    /\ UNCHANGED store_vars

CallBuildWithInlineSourceMap ==
    /\ ~panicked /\ result = None /\ via = "ToStringer"
    /\ result' = Some([op |-> "build_with_inline_source_map",
                       text |-> build_with_inline_source_map(out, source_map)])
    /\ UNCHANGED <<source_map, out, via, overflow_checks, panicked, calls, vlq>>
    /\ UNCHANGED store_vars

Init ==
    /\ source_map = new
    /\ out = << >>
    /\ via \in {"SourceMap", "ToStringer"}
    /\ overflow_checks = "unobserved"
    /\ panicked = FALSE
    /\ calls = << >>
    /\ result = None
    /\ vlq = [value |-> isize(0), before |-> << >>, after |-> None]
    /\ StoreInit

Next ==
    \/ \E input \in MappingInputs \cup SinkMappingInputs :
           CallAddMapping(input[1], input[2])
    \/ CallAddNewLine
    \/ \E length \in LengthInputs : CallAddToColumn(length)
    \/ \E chr \in CharInputs : CallPush(chr)
    \/ CallPushNewLine
    \/ \E slice \in StrInputs : CallPushStr(slice)
    \/ \E slice \in StrNewLineInputs : CallPushStrContainsNewLine(slice)
    \/ CallToString
    \/ CallBuildWithInlineSourceMap

Spec == Init /\ [][Next]_vars

(***************************************************************************)
(* The VLQ encoder on its own: a value and a buffer, encoded once.         *)
(***************************************************************************)
CallVlqEncode ==
    /\ vlq.after = None
    /\ ~panicked
    /\ \E checks \in (IF vlq_encode_overflows(vlq.value) THEN {"on", "off"}
                      ELSE {overflow_checks}) :
          /\ overflow_checks' = checks
          /\ IF vlq_encode_overflows(vlq.value) /\ checks = "on"
             THEN panicked' = TRUE /\ vlq' = vlq
             ELSE /\ panicked' = FALSE
                  /\ vlq' = [vlq EXCEPT !.after =
                                Some(vlq_encode_integer_to_buffer(vlq.before, vlq.value))]
    /\ UNCHANGED <<source_map, out, via, calls, result>>
    /\ UNCHANGED store_vars

VlqInit ==
    /\ source_map = new
    /\ out = << >>
    /\ via = "SourceMap"
    /\ overflow_checks = "unobserved"
    /\ panicked = FALSE
    /\ calls = << >>
    /\ result = None
    /\ vlq \in [value : VlqInputs, before : VlqBuffers, after : {None}]
    /\ StoreInit

VlqNext == CallVlqEncode

VlqSpec == VlqInit /\ [][VlqNext]_vars

(***************************************************************************)
(* Reading the mappings string.                                            *)
(***************************************************************************)
DigitIndex(c) == CHOOSE n \in 0..63 : BASE64_ALPHABET[n + 1] = c

\* The output line a position of the mappings string lies on.
LineAt(buf, i) == CountOf(SubSeq(buf, 1, i), ";")

CommasOnLine(buf, l) ==
    Cardinality({i \in 1..Len(buf) : buf[i] = "," /\ LineAt(buf, i) = l})

MappingCallsOnLine(history, l) ==
    Cardinality({k \in 1..Len(history) :
                    history[k].op = "add_mapping" /\ history[k].line = l})

\* What a Source Map v3 decoder does with one character of the mappings
\* string.  st holds the output line, the four running values, the fields of
\* the segment being read, the VLQ value being read and the segments found.
DecoderStart ==
    [line |-> 0, column |-> 0, source |-> 0, source_line |-> 0, source_column |-> 0,
     fields |-> << >>, value |-> 0, scale |-> 1, segments |-> << >>]

\* The end of a segment: each field is a delta onto its running value.
DecoderFlush(st) ==
    IF Len(st.fields) < 4 THEN [st EXCEPT !.fields = << >>]
    ELSE LET column == st.column + st.fields[1]
             source == st.source + st.fields[2]
             source_line == st.source_line + st.fields[3]
             source_column == st.source_column + st.fields[4]
         IN  [st EXCEPT !.column = column, !.source = source,
                        !.source_line = source_line, !.source_column = source_column,
                        !.fields = << >>,
                        !.segments = Append(@, [line |-> st.line, column |-> column,
                                                source |-> source,
                                                source_line |-> source_line,
                                                source_column |-> source_column])]

DecoderStep(st, c) ==
    IF c = ";" THEN [DecoderFlush(st) EXCEPT !.line = @ + 1, !.column = 0]
    ELSE IF c = "," THEN DecoderFlush(st)
    ELSE LET digit == DigitIndex(c)
             value == st.value + ((digit % 32) * st.scale)
         IN  IF digit >= 32
             THEN [st EXCEPT !.value = value, !.scale = @ * 32]
             ELSE [st EXCEPT !.value = 0, !.scale = 1,
                             !.fields = Append(@, IF value % 2 = 1 THEN -(value \div 2)
                                                  ELSE value \div 2)]

RECURSIVE DecoderRun(_, _, _)
DecoderRun(st, buf, i) ==
    IF i > Len(buf) THEN DecoderFlush(st)
    ELSE DecoderRun(DecoderStep(st, buf[i]), buf, i + 1)

DecodeMappings(buf) == DecoderRun(DecoderStart, buf, 1).segments

\* What the add_mapping calls of a history asked to be recorded, in call order.
MappingCalls(history) == SelectSeq(history, LAMBDA call : call.op = "add_mapping")

RequestedSegments(history, sm) ==
    LET mappings == MappingCalls(history)
    IN  [k \in 1..Len(mappings) |->
            [line |-> mappings[k].line, column |-> mappings[k].column,
             source |-> sm.sources_map[mappings[k].source_id],
             source_line |-> mappings[k].original_line - 1,
             source_column |-> mappings[k].original_column]]

\* The generated text after its last '\n' (all of it when there is none).
RECURSIVE CurrentLine(_)
CurrentLine(text) ==
    IF text = << >> \/ text[Len(text)] = "\n" THEN << >>
    ELSE Append(CurrentLine(SubSeq(text, 1, Len(text) - 1)), text[Len(text)])

(***************************************************************************)
(* C1: decoding the mappings string as a Source Map v3 decoder does yields,*)
(* in call order, exactly one segment per add_mapping call, carrying that  *)
(* call's output line, output column, position of its source in the        *)
(* sources list, zero-based source line and source column.                 *)
(***************************************************************************)
C1_DecodesToTheCalls ==
    ~panicked => DecodeMappings(source_map.buf) = RequestedSegments(calls, source_map)

(***************************************************************************)
(* C2: on a sink that carries a builder, the output column the next        *)
(* add_mapping records equals the number of characters written to the      *)
(* generated text since its last '\n'.                                     *)
(***************************************************************************)
C2_ColumnOfNextCharacter ==
    (via = "ToStringer" /\ ~panicked) => source_map.column = Len(CurrentLine(out))

(***************************************************************************)
(* C5: add_mapping with the null source never fails and leaves the         *)
(* mappings string exactly as if the call had not been made; the null      *)
(* source never appears in the sources list.                               *)
(***************************************************************************)
C5_NullSourceDropped ==
    [][\A pos \in {<<1, 0>>, <<2, 3>>} :
          CallAddMapping(pos, null) =>
              /\ ~panicked'
              /\ source_map'.buf = source_map.buf
              /\ source_map'.sources = source_map.sources]_vars

(***************************************************************************)
(* C10: vlq_encode_integer_to_buffer appends the Base64 digits of the      *)
(* payload (|v| << 1) | sign, five bits at a time from the least           *)
(* significant group, the continuation bit (32) on every digit but the     *)
(* last, at least one digit; 0 gives "A", 1 "C", -1 "D", 123 "2H" and      *)
(* 123456789 "qxmvrH".                                                     *)
(***************************************************************************)
\* The payload, exactly: the sign, then the bits of |v| (isize_BITS + 1 bits,
\* least significant first; |isize::MIN| has its top bit set).
VlqPayload(v) == <<v[isize_BITS]>> \o (IF v[isize_BITS] = 1 THEN wrapping_neg(v) ELSE v)

\* The number of bits of the payload up to its highest set bit.
VlqPayloadBits(v) ==
    LET payload == VlqPayload(v)
        ones == {i \in 1..Len(payload) : payload[i] = 1}
    IN  IF ones = {} THEN 0 ELSE CHOOSE i \in ones : \A j \in ones : j <= i

\* The k-th group of five payload bits, as a number.
VlqGroup(v, k) ==
    LET payload == VlqPayload(v)
        bit(i) == IF i <= Len(payload) THEN payload[i] ELSE 0
    IN  bit((5 * k) - 4) + (2 * bit((5 * k) - 3)) + (4 * bit((5 * k) - 2))
        + (8 * bit((5 * k) - 1)) + (16 * bit(5 * k))

VlqAppended == SubSeq(vlq.after[1], Len(vlq.before) + 1, Len(vlq.after[1]))

\* The digits appended are those of the payload of vlq.value.
VlqDigitsOfPayload ==
    LET digits == VlqAppended
        n == Len(digits)
    IN  /\ SubSeq(vlq.after[1], 1, Len(vlq.before)) = vlq.before
        /\ n >= 1
        /\ VlqPayloadBits(vlq.value) <= 5 * n
        /\ (n > 1 => VlqPayloadBits(vlq.value) > 5 * (n - 1))
        /\ \A i \in 1..n :
              /\ digits[i] \in {BASE64_ALPHABET[k] : k \in 1..64}
              /\ DigitIndex(digits[i]) % 32 = VlqGroup(vlq.value, i)
              /\ (DigitIndex(digits[i]) >= 32) <=> (i < n)

VlqVectors ==
    {<<0, "A">>, <<1, "C">>, <<-1, "D">>, <<123, "2H">>, <<123456789, "qxmvrH">>}

VlqEncoded ==
    /\ VlqDigitsOfPayload
    /\ \A vector \in VlqVectors :
          vlq.value = isize(vector[1]) => VlqAppended = Chars(vector[2])

C10_VlqEncodingEveryInput ==
    /\ ~panicked
    /\ vlq.after # None => VlqEncoded

(***************************************************************************)
(* C10, amended: for every v whose payload fits a non-negative isize       *)
(* (|v| < 2^(isize::BITS - 2)), vlq_encode_integer_to_buffer returns       *)
(* having appended the Base64 digits of the payload (|v| << 1) | sign,     *)
(* five bits at a time from the least significant group, the continuation  *)
(* bit on every digit but the last, at least one digit; 0 gives "A", 1     *)
(* "C", -1 "D", 123 "2H" and 123456789 "qxmvrH".                           *)
(***************************************************************************)
VlqPayloadFits(v) == VlqPayloadBits(v) <= isize_BITS - 1

C10_VlqEncoding ==
    VlqPayloadFits(vlq.value) =>
        /\ ~panicked
        /\ vlq.after # None => VlqEncoded

C10_Witness ==
    /\ vlq.after # None
    /\ vlq.before # << >>
    /\ vlq.value = wrapping_neg([i \in 1..isize_BITS |-> IF i < isize_BITS - 1 THEN 1 ELSE 0])
    /\ Len(VlqAppended) = 13

(***************************************************************************)
(* C3: the number of ';' in the mappings string equals the number of       *)
(* add_new_line calls made so far.                                         *)
(***************************************************************************)
C3_BreakPerNewLine == CountOf(source_map.buf, ";") = NewLineCalls(calls)

C3_Witness ==
    /\ CountOf(source_map.buf, ";") >= 2
    /\ \E k \in 1..Len(calls) : calls[k].op = "add_mapping"

JsonSources == Chars("{\"version\":3,\"sourceRoot\":\"\",\"sources\":[")
JsonSourcesContent == Chars("],\"sourcesContent\":[")
JsonNamesMappings == Chars("],\"names\":[],\"mappings\":\"")
JsonEnd == Chars("\"}")

Quoted(text) == <<"\"">> \o text \o <<"\"">>

\* The entries, a ',' before each but the first.
CommaJoined(entries) ==
    Concat([i \in 1..Len(entries) |->
               IF i = 1 THEN entries[i] ELSE <<",">> \o entries[i]],
           1, Len(entries))

StartsWith(text, prefix) ==
    Len(text) >= Len(prefix) /\ SubSeq(text, 1, Len(prefix)) = prefix

\* Where pattern first occurs in text (0 when it does not).
FirstOccurrence(text, pattern) ==
    LET hits == {i \in 1..(Len(text) - Len(pattern) + 1) :
                    SubSeq(text, i, i + Len(pattern) - 1) = pattern}
    IN  IF hits = {} THEN 0 ELSE CHOOSE i \in hits : \A j \in hits : i <= j

\* The text of the sourcesContent array: from the first "sourcesContent" key
\* to the "names" key that closes the envelope around the mappings.
SourcesContentArray(text, buf) ==
    SubSeq(text,
           FirstOccurrence(text, JsonSourcesContent) + Len(JsonSourcesContent),
           Len(text) - (Len(JsonNamesMappings) + Len(buf) + Len(JsonEnd)))

Serialised == result # None /\ result[1].op = "to_string"

Inlined == result # None /\ result[1].op = "build_with_inline_source_map"

(***************************************************************************)
(* C6: the serialised JSON is exactly                                      *)
(* {"version":3,"sourceRoot":"","sources":[..],"sourcesContent":[..],      *)
(* "names":[],"mappings":".."}: the six fields in this order, names empty, *)
(* sources and sourcesContent holding one comma-separated entry per source *)
(* in sources order with no trailing comma; a builder that received no     *)
(* events serialises with empty sources, sourcesContent and mappings.      *)
(***************************************************************************)
C6_JsonEnvelope ==
    Serialised =>
        LET sources == source_map.sources
            paths == [i \in 1..Len(sources) |-> to_string_source_name(sources[i])]
            contents == [i \in 1..Len(sources) |-> to_string_source_content(sources[i])]
        IN  /\ result[1].text =
                   JsonSources \o CommaJoined(paths)
                   \o JsonSourcesContent \o CommaJoined(contents)
                   \o JsonNamesMappings \o source_map.buf \o JsonEnd
            /\ \A i \in 1..Len(sources) :
                  /\ Len(paths[i]) >= 2 /\ Len(contents[i]) >= 2
                  /\ paths[i][1] = "\"" /\ paths[i][Len(paths[i])] = "\""
                  /\ contents[i][1] = "\"" /\ contents[i][Len(contents[i])] = "\""
            /\ calls = << >> =>
                   result[1].text =
                       Chars("{\"version\":3,\"sourceRoot\":\"\",\"sources\":[],\"sourcesContent\":[],\"names\":[],\"mappings\":\"\"}")

C6_Witness ==
    /\ Serialised
    /\ Len(source_map.sources) = 2
    /\ CountOf(source_map.buf, ";") >= 1

(***************************************************************************)
(* C7: in the JSON sources array every source path is written with '/' as  *)
(* separator: each backslash of a registered path appears as a forward     *)
(* slash.                                                                  *)
(***************************************************************************)
C7_ForwardSlashPaths ==
    Serialised =>
        LET sources == source_map.sources
            paths == [i \in 1..Len(sources) |->
                         Quoted(replace(sources[i].name, "\\", <<"/">>))]
        IN  StartsWith(result[1].text, JsonSources \o CommaJoined(paths) \o <<"]">>)

(***************************************************************************)
(* C8: in the JSON sourcesContent array each source's content is written   *)
(* verbatim except that every line feed becomes backslash-n, every         *)
(* carriage return backslash-r and every double quote backslash-quote; no  *)
(* character is dropped and nothing else is altered.                       *)
(***************************************************************************)
EscapedContent(content) ==
    replace(replace(replace(content, "\n", Chars("\\n")), "\r", Chars("\\r")),
            "\"", Chars("\\\""))

C8_ContentEscaping ==
    Serialised =>
        LET sources == source_map.sources
            contents == [i \in 1..Len(sources) |->
                            Quoted(IF sources[i].content = None THEN << >>
                                   ELSE EscapedContent(sources[i].content[1]))]
        IN  SourcesContentArray(result[1].text, source_map.buf) = CommaJoined(contents)

(***************************************************************************)
(* C9: build_with_inline_source_map returns the generated text unchanged,  *)
(* then exactly one newline and the literal                                *)
(* //# sourceMappingURL=data:application/json;base64, then the standard    *)
(* padded Base64 of the JSON of the map, with nothing after it; decoding   *)
(* that Base64 yields the JSON byte for byte.                              *)
(***************************************************************************)
InlineComment == Chars("//# sourceMappingURL=data:application/json;base64,")

\* Standard Base64: digits of the alphabet in groups of four, '=' only as the
\* last one or two characters.
IsPaddedBase64(text) ==
    /\ Len(text) % 4 = 0
    /\ \A i \in 1..Len(text) :
          \/ text[i] \in {BASE64_ALPHABET[k] : k \in 1..64}
          \/ /\ text[i] = "="
             /\ i >= Len(text) - 1
             /\ text[Len(text)] = "="

Base64DecodeGroup(c) ==
    LET first == (DigitIndex(c[1]) * 4) + (DigitIndex(c[2]) \div 16)
    IN  IF c[3] = "=" THEN <<first>>
        ELSE LET second == ((DigitIndex(c[2]) % 16) * 16) + (DigitIndex(c[3]) \div 4)
             IN  IF c[4] = "=" THEN <<first, second>>
                 ELSE <<first, second, ((DigitIndex(c[3]) % 4) * 64) + DigitIndex(c[4])>>

Base64Decode(text) ==
    Concat([g \in 1..(Len(text) \div 4) |->
               Base64DecodeGroup(SubSeq(text, (4 * g) - 3, 4 * g))],
           1, Len(text) \div 4)

C9_InlineSourceMap ==
    Inlined =>
        LET text == result[1].text
            start == Len(out) + 1 + Len(InlineComment)
            encoded == SubSeq(text, start + 1, Len(text))
        IN  /\ StartsWith(text, out \o <<"\n">> \o InlineComment)
            /\ IsPaddedBase64(encoded)
            /\ Base64Decode(encoded) = as_bytes(to_string(source_map))

C9_Witness ==
    /\ Inlined
    /\ CountOf(out, "\n") >= 1
    /\ Len(source_map.sources) = 2

(***************************************************************************)
(* The standard Base64-VLQ decoder: digits are read up to the first one    *)
(* without the continuation bit; their low five bits, least significant    *)
(* group first, are the payload; the payload's lowest bit is the sign, the *)
(* rest the magnitude.                                                     *)
(***************************************************************************)
IsVlqDigit(c) == c \in {BASE64_ALPHABET[k] : k \in 1..64}

\* How many characters of text the decoder consumes (0: no complete value).
VlqDecodeConsumed(text) ==
    LET ends == {i \in 1..Len(text) :
                    /\ \A j \in 1..i : IsVlqDigit(text[j])
                    /\ DigitIndex(text[i]) < 32
                    /\ \A j \in 1..(i - 1) : DigitIndex(text[j]) >= 32}
    IN  IF ends = {} THEN 0 ELSE CHOOSE i \in ends : TRUE

\* The payload bit at position i (from 1) of the digits consumed.
VlqDecodePayloadBit(text, i) ==
    IF i > 5 * VlqDecodeConsumed(text) THEN 0
    ELSE ((DigitIndex(text[((i - 1) \div 5) + 1]) % 32) \div (2 ^ ((i - 1) % 5))) % 2

\* The value decoded, as a word.
VlqDecodeValue(text) ==
    LET magnitude == [i \in 1..isize_BITS |-> VlqDecodePayloadBit(text, i + 1)]
    IN  IF VlqDecodePayloadBit(text, 1) = 1 THEN wrapping_neg(magnitude) ELSE magnitude

\* v lies in [-2^31, 2^31): the word is the sign extension of its low 32 bits.
InSigned32(v) == \A i \in 32..isize_BITS : v[i] = v[32]

\* What may follow a value in a mappings string: more digits, a separator,
\* nothing.
VlqFollowers == {<< >>, Chars("C"), Chars("gB"), Chars(","), Chars(";")}

(***************************************************************************)
(* C11: for every v in [-2^31, 2^31), decoding the output of               *)
(* vlq_encode_integer_to_buffer(v) with the standard Base64-VLQ decoder    *)
(* returns v, and the encoding is self-delimiting: the decoder consumes    *)
(* exactly the characters emitted for v, whatever follows them.            *)
(***************************************************************************)
C11_VlqRoundTrip ==
    InSigned32(vlq.value) =>
        /\ ~panicked
        /\ vlq.after # None =>
              \A rest \in VlqFollowers :
                 /\ VlqDecodeConsumed(VlqAppended \o rest) = Len(VlqAppended)
                 /\ VlqDecodeValue(VlqAppended \o rest) = vlq.value

C11_Witness ==
    /\ vlq.after # None
    /\ vlq.value = wrapping_neg([i \in 1..isize_BITS |-> IF i = 32 THEN 1 ELSE 0])
    /\ Len(VlqAppended) = 7
    /\ VlqDecodeValue(VlqAppended \o Chars("gB")) = vlq.value

(***************************************************************************)
(* The scoped registry on its own: calls on a MapFileStore<WithPathMap>.   *)
(* It starts empty, or holding FsManySources sources already: the store    *)
(* after that many new_source_id("", "") calls, near the end of the u8     *)
(* handles.                                                                *)
(***************************************************************************)
FsManySources == 254

FsPaths == {Chars("a.ts"), Chars("b.ts")}
FsContents == {<< >>, Chars("a\nb"), <<"U+00E9", "\n", "\n">>}
FsSuffixes == {Chars("\n"), Chars("c\nd")}
FsIds == {1, 2}

\* The store after count calls of new_source_id("", "").
FsAfterAllocations(count) ==
    [sources |-> [i \in 1..count |->
                     [path |-> << >>, content |-> << >>, line_starts |-> <<0>>]],
     mappings |-> IF count = 0 THEN << >> ELSE (<< >> :> count)]

FsLive == ~panicked /\ fs_log.calls < MaxFsCalls

\* The log after a call: allocations holds, for each allocation the call made
\* (none, or one), the handle it returned, or None when it panicked.
FsLogged(allocations) ==
    [allocated |-> fs_log.allocated \o allocations, calls |-> fs_log.calls + 1,
     lookup |-> None, read |-> None]

\* The log after a call that looked a handle up: the method and the handle,
\* and the source the lookup gave access to (None when it panicked).
FsLookedUp(method, id, read) ==
    [FsLogged(<< >>) EXCEPT !.lookup = Some(<<method, id>>), !.read = read]

\* The handle of what new_source_id_with_line_starts returned.
FsHandle(returned) == IF returned = None THEN None ELSE Some(returned[1][1])

CallNewSourceId(path, content) ==
    LET call == new_source_id_with_line_starts(fs, path, content)
    IN  /\ FsLive
        /\ fs' = call.store
        /\ panicked' = new_source_id_panics(fs)
        /\ fs_log' = FsLogged(<<FsHandle(call.returned)>>)
        /\ UNCHANGED <<source_map, out, via, overflow_checks, calls, result, vlq>>
        /\ UNCHANGED <<global_ids, conv, max_counter>>
        /\ UNCHANGED sink_vars

CallUpdateFile(id, content) ==
    /\ FsLive
    /\ IF source_index_panics(fs, id)
       THEN panicked' = TRUE /\ fs' = fs
       ELSE panicked' = FALSE /\ fs' = update_file(fs, id, content)
    /\ fs_log' = FsLookedUp("update_file", id, get_source_by_id(fs, id))
    /\ UNCHANGED <<source_map, out, via, overflow_checks, calls, result, vlq>>
    /\ UNCHANGED <<global_ids, conv, max_counter>>
    /\ UNCHANGED sink_vars

CallAppendToFile(id, content) ==
    /\ FsLive
    /\ IF source_index_panics(fs, id)
       THEN panicked' = TRUE /\ fs' = fs
       ELSE panicked' = FALSE /\ fs' = append_to_file(fs, id, content).store
    /\ fs_log' = FsLookedUp("append_to_file", id, get_source_by_id(fs, id))
    /\ UNCHANGED <<source_map, out, via, overflow_checks, calls, result, vlq>>
    /\ UNCHANGED <<global_ids, conv, max_counter>>
    /\ UNCHANGED sink_vars

CallUpdateFileAtPath(path, content) ==
    /\ FsLive
    /\ IF path_index_panics(fs, path)
       THEN panicked' = TRUE /\ fs' = fs
       ELSE panicked' = FALSE /\ fs' = update_file_at_path(fs, path, content)
    /\ fs_log' = FsLogged(<< >>)
    /\ UNCHANGED <<source_map, out, via, overflow_checks, calls, result, vlq>>
    /\ UNCHANGED <<global_ids, conv, max_counter>>
    /\ UNCHANGED sink_vars

CallChangeFilePath(from, to) ==
    /\ FsLive
    /\ IF path_index_panics(fs, from)
       THEN panicked' = TRUE /\ fs' = fs
       ELSE panicked' = FALSE /\ fs' = change_file_path(fs, from, to)
    /\ fs_log' = FsLogged(<< >>)
    /\ UNCHANGED <<source_map, out, via, overflow_checks, calls, result, vlq>>
    /\ UNCHANGED <<global_ids, conv, max_counter>>
    /\ UNCHANGED sink_vars

CallCreateOrUpdateFileAtPath(path, content) ==
    LET call == create_or_update_file_at_path(fs, path, content)
    IN  /\ FsLive
        /\ fs' = call.store
        /\ panicked' = (path \notin DOMAIN fs.mappings /\ new_source_id_panics(fs))
        /\ fs_log' = FsLogged(IF path \in DOMAIN fs.mappings THEN << >>
                              ELSE <<FsHandle(call.returned)>>)
        /\ UNCHANGED <<source_map, out, via, overflow_checks, calls, result, vlq>>
        /\ UNCHANGED <<global_ids, conv, max_counter>>
        /\ UNCHANGED sink_vars

FsInit ==
    /\ source_map = new
    /\ out = << >>
    /\ via = "SourceMap"
    /\ overflow_checks = "unobserved"
    /\ panicked = FALSE
    /\ calls = << >>
    /\ result = None
    /\ vlq = [value |-> isize(0), before |-> << >>, after |-> None]
    /\ \E count \in {0, FsManySources} :
          /\ fs = FsAfterAllocations(count)
          /\ fs_log = FsLog([i \in 1..count |-> Some(i)])
    /\ global_ids = SourceIdsInit
    /\ conv = NoConversion
    /\ max_counter = MaxCounterFresh(0)
    /\ SinkInit

FsNext ==
    \/ \E path \in FsPaths, content \in FsContents : CallNewSourceId(path, content)
    \/ \E id \in FsIds, content \in FsContents : CallUpdateFile(id, content)
    \/ \E id \in FsIds, content \in FsSuffixes : CallAppendToFile(id, content)
    \/ \E path \in FsPaths, content \in FsContents : CallUpdateFileAtPath(path, content)
    \/ \E from \in FsPaths, to \in FsPaths : CallChangeFilePath(from, to)
    \/ \E path \in FsPaths, content \in FsContents :
          CallCreateOrUpdateFileAtPath(path, content)

FsSpec == FsInit /\ [][FsNext]_vars

(***************************************************************************)
(* C12: on a scoped registry the k-th source allocation (k >= 1) returns   *)
(* the handle k, whatever update_file, append_to_file, change_file_path or *)
(* update-of-existing-path calls come between allocations; hence handles   *)
(* start at 1, none is the null handle 0, and none is returned twice.      *)
(***************************************************************************)
C12_DenseHandles ==
    LET allocated == fs_log.allocated
    IN  /\ \A k \in 1..Len(allocated) : allocated[k] = Some(k)
        /\ \A k \in 1..Len(allocated) : allocated[k] # Some(null)
        /\ \A j, k \in 1..Len(allocated) : allocated[j] = allocated[k] => j = k

(***************************************************************************)
(* The process-wide handles on their own: threads calling SourceId::new.   *)
(***************************************************************************)
SourceIdNewFetchAdd(thread) ==
    /\ global_ids.pending[thread] = None
    /\ global_ids.calls < MaxSourceIdCalls
    /\ global_ids' = fetch_add(global_ids, thread)
    /\ UNCHANGED builder_vars
    /\ UNCHANGED <<fs, fs_log, conv, max_counter>>
    /\ UNCHANGED sink_vars

SourceIdNewInsert(thread) ==
    /\ global_ids.pending[thread] # None
    /\ global_ids' = insert_and_return(global_ids, thread, << >>, << >>)
    /\ UNCHANGED builder_vars
    /\ UNCHANGED <<fs, fs_log, conv, max_counter>>
    /\ UNCHANGED sink_vars

SourceIdInit == Init /\ via = "SourceMap"

SourceIdNext ==
    \E thread \in Threads : SourceIdNewFetchAdd(thread) \/ SourceIdNewInsert(thread)

SourceIdSpec == SourceIdInit /\ [][SourceIdNext]_vars

(***************************************************************************)
(* C13: for every number of calls, the process-wide SourceId::new never    *)
(* returns the null handle 0 and never returns a handle equal to one it    *)
(* returned earlier (nor one a call in progress has taken).                *)
(***************************************************************************)
C13_GlobalHandlesDistinct ==
    LET taken(id) == global_ids.returned[id]
                     + Cardinality({t \in Threads : global_ids.pending[t] = Some(id)})
    IN  /\ taken(null) = 0
        /\ \A id \in 1..u8_MAX : taken(id) <= 1

(***************************************************************************)
(* C14: after any sequence of new_source_id, update_file and               *)
(* append_to_file calls (and the other calls of the store), every source's *)
(* stored line-start index equals the index LineStarts::new computes from  *)
(* its current content; and building the index for A, then appending B at  *)
(* offset A.len(), gives the index of A||B, for every split of the content.*)
(***************************************************************************)
C14_IndexFollowsContent ==
    \A k \in 1..Len(fs.sources) :
        LET source == fs.sources[k]
        IN  /\ source.line_starts = LineStarts_new(source.content)
            /\ \A at \in 0..Len(source.content) :
                  LET left == SubSeq(source.content, 1, at)
                      right == SubSeq(source.content, at + 1, Len(source.content))
                  IN  LineStarts_append(LineStarts_new(left), str_len(left), right)
                          = LineStarts_new(source.content)

C14_Witness ==
    /\ ~panicked
    /\ \E k \in 1..Len(fs.sources) :
          /\ fs.sources[k].content = <<"U+00E9", "\n", "\n", "c", "\n", "d">>
          /\ fs.sources[k].line_starts = <<0, 3, 4, 6>>

(***************************************************************************)
(* C15: for every source held by the registry after any sequence of        *)
(* operations, line_starts[0] = 0, line_starts is strictly increasing,     *)
(* every later element is the byte offset immediately after a '\n' of the  *)
(* content, and the last element is at most content.len().                 *)
(***************************************************************************)
C15_LineStartsShape ==
    \A k \in 1..Len(fs.sources) :
        LET line_starts == fs.sources[k].line_starts
            bytes == as_bytes(fs.sources[k].content)
        IN  /\ Len(line_starts) >= 1
            /\ line_starts[1] = 0
            /\ \A i \in 1..(Len(line_starts) - 1) : line_starts[i] < line_starts[i + 1]
            /\ \A i \in 2..Len(line_starts) :
                  /\ line_starts[i] \in 1..Len(bytes)
                  /\ bytes[line_starts[i]] = 10
            /\ line_starts[Len(line_starts)] <= Len(bytes)

C15_Witness ==
    /\ ~panicked
    /\ \E k \in 1..Len(fs.sources) :
          /\ fs.sources[k].content = <<"U+00E9", "\n", "\n", "\n">>
          /\ fs.sources[k].line_starts = <<0, 3, 4, 5>>

(***************************************************************************)
(* C16: for every content, the slices                                      *)
(* content[line_starts[i]..line_starts[i+1]] for consecutive i each end in *)
(* '\n' and contain no other '\n', and concatenated in order they equal    *)
(* the content up to and including its last '\n'.                          *)
(***************************************************************************)
C16_LineStartsSplit ==
    \A k \in 1..Len(fs.sources) :
        LET line_starts == fs.sources[k].line_starts
            bytes == as_bytes(fs.sources[k].content)
            slice(i) == SubSeq(bytes, line_starts[i] + 1, line_starts[i + 1])
            feeds == {j \in 1..Len(bytes) : bytes[j] = 10}
            last == IF feeds = {} THEN 0 ELSE CHOOSE j \in feeds : \A h \in feeds : h <= j
        IN  /\ \A i \in 1..(Len(line_starts) - 1) :
                  /\ Len(slice(i)) >= 1
                  /\ slice(i)[Len(slice(i))] = 10
                  /\ \A j \in 1..(Len(slice(i)) - 1) : slice(i)[j] # 10
            /\ Concat([i \in 1..(Len(line_starts) - 1) |-> slice(i)],
                      1, Len(line_starts) - 1)
                   = SubSeq(bytes, 1, last)

C16_Witness ==
    /\ ~panicked
    /\ \E k \in 1..Len(fs.sources) :
          /\ fs.sources[k].content = Chars("a\nb")
          /\ fs.sources[k].line_starts = <<0, 2>>
          /\ fs.sources[k].path = Chars("b.ts")

(***************************************************************************)
(* Positions and spans: byte offsets to line and column, and back          *)
(* (span.rs, lines_columns_indexes.rs, encodings.rs).  Lines and columns   *)
(* are zero based; a scalar position is a byte offset into the content.    *)
(***************************************************************************)

\* str::is_char_boundary
is_char_boundary(text, index) ==
    \E k \in 0..Len(text) : str_len(SubSeq(text, 1, k)) = index

\* The number of characters that lie before the byte offset index.
chars_before(text, index) ==
    CHOOSE k \in 0..Len(text) : str_len(SubSeq(text, 1, k)) = index

\* &text[from..to] panics unless from <= to and both are character boundaries.
str_index_panics(text, from, to) ==
    \/ from > to
    \/ ~is_char_boundary(text, from)
    \/ ~is_char_boundary(text, to)

str_index(text, from, to) ==
    SubSeq(text, chars_before(text, from) + 1, chars_before(text, to))

\* lines_columns_indexes.rs:49-59: scan the index from its end for the first
\* line start at or before pos.
get_line_and_column_pos_is_on(line_starts, pos) ==
    LET backwards_index ==
            CHOOSE b \in 0..(Len(line_starts) - 1) :
                /\ pos >= line_starts[Len(line_starts) - b]
                /\ \A a \in 0..(b - 1) : pos < line_starts[Len(line_starts) - a]
        line == (Len(line_starts) - 1) - backwards_index
    IN  <<line, pos - line_starts[line + 1]>>

\* lines_columns_indexes.rs:44-46
get_line_pos_is_on(line_starts, pos) == get_line_and_column_pos_is_on(line_starts, pos)[1]

Encodings == {"ByteWiseEncoding", "Utf8"}

\* encodings.rs:17-19, 34-36
get_encoded_length(T, string) ==
    IF T = "ByteWiseEncoding" THEN str_len(string) ELSE Len(string)

\* encodings.rs:21-23, 38-40: under Utf8 the first length characters are
\* mapped to their byte lengths and the mapped items are counted.
encoded_length_to_byte_count(T, string, length) ==
    IF T = "ByteWiseEncoding" THEN length
    ELSE Len([i \in 1..(IF length < Len(string) THEN length ELSE Len(string)) |->
                len_utf8(string[i])])

\* span.rs:245-263
into_line_column_position_panics(store, pos, source) ==
    \/ source_index_panics(store, source)
    \/ str_index_panics(store.sources[source].content,
                        store.sources[source].line_starts[
                            get_line_pos_is_on(store.sources[source].line_starts, pos) + 1],
                        pos)

into_line_column_position(store, T, pos, source) ==
    LET content == store.sources[source].content
        line_starts == store.sources[source].line_starts
        line == get_line_pos_is_on(line_starts, pos)
        line_byte == line_starts[line + 1]
        column == get_encoded_length(T, str_index(content, line_byte, pos))
    IN  <<line, column>>

\* span.rs:274-283
into_scalar_position(store, T, line, column, source) ==
    LET content == store.sources[source].content
        line_byte == store.sources[source].line_starts[line + 1]
        column_length ==
            encoded_length_to_byte_count(T, str_index(content, line_byte, str_len(content)),
                                         column)
    IN  line_byte + column_length

\* span.rs:111-135
into_line_column_span_panics(store, start, end, source) ==
    \/ into_line_column_position_panics(store, start, source)
    \/ into_line_column_position_panics(store, end, source)

into_line_column_span(store, T, start, end, source) ==
    LET content == store.sources[source].content
        line_starts == store.sources[source].line_starts
        line_start == get_line_pos_is_on(line_starts, start)
        line_start_byte == line_starts[line_start + 1]
        column_start == get_encoded_length(T, str_index(content, line_start_byte, start))
        line_end == get_line_pos_is_on(line_starts, end)
        line_end_byte == line_starts[line_end + 1]
        column_end == get_encoded_length(T, str_index(content, line_end_byte, end))
    IN  <<line_start, column_start, line_end, column_end>>

\* span.rs:296-318: both column lengths are computed from column_start.
into_scalar_span(store, T, line_start, column_start, line_end, column_end, source) ==
    LET content == store.sources[source].content
        line_starts == store.sources[source].line_starts
        line_start_byte == line_starts[line_start + 1]
        column_start_length ==
            encoded_length_to_byte_count(
                T, str_index(content, line_start_byte, str_len(content)), column_start)
        line_end_byte == line_starts[line_end + 1]
        column_end_length ==
            encoded_length_to_byte_count(
                T, str_index(content, line_end_byte, str_len(content)), column_start)
    IN  <<line_start_byte + column_start_length, line_end_byte + column_end_length>>

(***************************************************************************)
(* ConvSpec: a registry of two sources; a position or a span is converted  *)
(* to line and column, and the result converted back.                      *)
(***************************************************************************)
ConvMaxOffset == 6

ConvContents ==
    { <<"a", "\n", "b", "c">>,
      <<"U+00E9", "b", "\n", "c">>,
      <<"a", "U+1F600", "\n", "\n">> }

ConvIds == {1, 2}

ConvOffsets == 0..ConvMaxOffset

CallIntoLineColumnPosition(T, pos, source) ==
    /\ ~panicked
    /\ IF into_line_column_position_panics(fs, pos, source)
       THEN /\ panicked' = TRUE
            /\ conv' = conv
       ELSE /\ panicked' = FALSE
            /\ conv' = [op |-> "into_line_column_position", encoding |-> T,
                        source |-> source, scalar |-> <<pos>>,
                        line_column |-> into_line_column_position(fs, T, pos, source),
                        returned |-> << >>]
    /\ UNCHANGED <<source_map, out, via, overflow_checks, calls, result, vlq>>
    /\ UNCHANGED <<fs, fs_log, global_ids, max_counter>>
    /\ UNCHANGED sink_vars

CallIntoScalarPosition ==
    /\ ~panicked
    /\ conv.op = "into_line_column_position"
    /\ conv' = [conv EXCEPT
                  !.op = "into_scalar_position",
                  !.returned = <<into_scalar_position(fs, conv.encoding, conv.line_column[1],
                                                      conv.line_column[2], conv.source)>>]
    /\ UNCHANGED builder_vars
    /\ UNCHANGED <<fs, fs_log, global_ids, max_counter>>
    /\ UNCHANGED sink_vars

CallIntoLineColumnSpan(T, start, end, source) ==
    /\ ~panicked
    /\ start <= end
    /\ IF into_line_column_span_panics(fs, start, end, source)
       THEN /\ panicked' = TRUE
            /\ conv' = conv
       ELSE /\ panicked' = FALSE
            /\ conv' = [op |-> "into_line_column_span", encoding |-> T,
                        source |-> source, scalar |-> <<start, end>>,
                        line_column |-> into_line_column_span(fs, T, start, end, source),
                        returned |-> << >>]
    /\ UNCHANGED <<source_map, out, via, overflow_checks, calls, result, vlq>>
    /\ UNCHANGED <<fs, fs_log, global_ids, max_counter>>
    /\ UNCHANGED sink_vars

CallIntoScalarSpan ==
    /\ ~panicked
    /\ conv.op = "into_line_column_span"
    /\ conv' = [conv EXCEPT
                  !.op = "into_scalar_span",
                  !.returned = into_scalar_span(fs, conv.encoding, conv.line_column[1],
                                                conv.line_column[2], conv.line_column[3],
                                                conv.line_column[4], conv.source)]
    /\ UNCHANGED builder_vars
    /\ UNCHANGED <<fs, fs_log, global_ids, max_counter>>
    /\ UNCHANGED sink_vars

ConvInit ==
    /\ source_map = new
    /\ out = << >>
    /\ via = "SourceMap"
    /\ overflow_checks = "unobserved"
    /\ panicked = FALSE
    /\ calls = << >>
    /\ result = None
    /\ vlq = [value |-> isize(0), before |-> << >>, after |-> None]
    /\ \E first \in ConvContents, second \in ConvContents :
          LET one == new_source_id_with_line_starts(MapFileStore_default,
                                                    Chars("a.ts"), first).store
              two == new_source_id_with_line_starts(one, Chars("b.ts"), second).store
          IN  /\ fs = two
              /\ fs_log = FsLog(<<Some(1), Some(2)>>)
    /\ global_ids = SourceIdsInit
    /\ conv = NoConversion
    /\ max_counter = MaxCounterFresh(0)
    /\ SinkInit

ConvNext ==
    \/ \E T \in Encodings, pos \in ConvOffsets, source \in ConvIds :
          CallIntoLineColumnPosition(T, pos, source)
    \/ CallIntoScalarPosition
    \/ \E T \in Encodings, start \in ConvOffsets, end \in ConvOffsets, source \in ConvIds :
          CallIntoLineColumnSpan(T, start, end, source)
    \/ CallIntoScalarSpan

ConvSpec == ConvInit /\ [][ConvNext]_vars

(***************************************************************************)
(* C17: for every registered source and every byte offset p on a character *)
(* boundary of its content, Position(p).into_line_column_position followed *)
(* by into_scalar_position returns Position(p), under both the ByteWise    *)
(* and the Utf8 encoding and for contents with multi-byte characters.      *)
(***************************************************************************)
C17_PositionRoundTrip ==
    conv.op = "into_scalar_position" => conv.returned = conv.scalar

(***************************************************************************)
(* C18: for every registered source and every span with start <= end on    *)
(* character boundaries of its content, into_line_column_span followed by  *)
(* into_scalar_span returns the original span (same start, same end, same  *)
(* source), under both encodings.                                          *)
(***************************************************************************)
C18_SpanRoundTrip ==
    conv.op = "into_scalar_span" => conv.returned = conv.scalar

(***************************************************************************)
(* The bounded counter (to_string.rs, MaxCounter): a sink that only adds   *)
(* up byte lengths and reports when the sum has passed its maximum.        *)
(***************************************************************************)

\* to_string.rs:246-248
get_acc(counter) == counter.acc

\* to_string.rs:252-254
MaxCounter_push(counter, chr) == [counter EXCEPT !.acc = @ + len_utf8(chr)]

\* to_string.rs:256-258
MaxCounter_push_new_line(counter) == MaxCounter_push(counter, "\n")

\* Mutant: the length replaces the sum.
MaxCounter_push_str_assigning(counter, string) == [counter EXCEPT !.acc = str_len(string)]

\* to_string.rs:260-262
MaxCounter_push_str(counter, string) == [counter EXCEPT !.acc = @ + str_len(string)]

\* to_string.rs:264-266
MaxCounter_push_str_contains_new_line(counter, string) ==
    [counter EXCEPT !.acc = @ + str_len(string)]

\* Mutant: reaching the maximum already halts.
halt_at_max(counter) == counter.acc >= counter.max

\* to_string.rs:270-272
halt(counter) == counter.acc > counter.max

(***************************************************************************)
(* MaxCounterSpec: a counter is made with some maximum, text is appended   *)
(* through the four appending methods, and halt() is polled.               *)
(***************************************************************************)
MaxCounterCalls == 6

MaxCounterMaxes == {0, 4, 14}

MaxCounterChars == {" ", "U+00E9", "U+1F600"}

MaxCounterStrings == {<< >>, Chars("Hello"), Chars("World"), <<"U+00E9">>}

MaxCounterLines == {Chars("a\nb")}

\* What one appending call leaves behind: the new counter, the UTF-8 bytes of
\* the appended text added to the total.
Appended(counter, text, method) ==
    [max_counter EXCEPT
        !.counter = counter,
        !.last = method,
        !.appended = @ + Len(as_bytes(text)),
        !.after_halt = IF max_counter.halted THEN @ + 1 ELSE @,
        !.calls = @ + 1]

CallMaxCounterPush(chr) ==
    /\ max_counter.calls < MaxCounterCalls
    /\ max_counter' = Appended(MaxCounter_push(max_counter.counter, chr), <<chr>>, "push")
    /\ UNCHANGED builder_vars
    /\ UNCHANGED <<fs, fs_log, global_ids, conv>>
    /\ UNCHANGED sink_vars

CallMaxCounterPushNewLine ==
    /\ max_counter.calls < MaxCounterCalls
    /\ max_counter' = Appended(MaxCounter_push_new_line(max_counter.counter), <<"\n">>, "push_new_line")
    /\ UNCHANGED builder_vars
    /\ UNCHANGED <<fs, fs_log, global_ids, conv>>
    /\ UNCHANGED sink_vars

CallMaxCounterPushStr(string) ==
    /\ max_counter.calls < MaxCounterCalls
    /\ max_counter' = Appended(MaxCounter_push_str(max_counter.counter, string), string, "push_str")
    /\ UNCHANGED builder_vars
    /\ UNCHANGED <<fs, fs_log, global_ids, conv>>
    /\ UNCHANGED sink_vars

CallMaxCounterPushStrContainsNewLine(string) ==
    /\ max_counter.calls < MaxCounterCalls
    /\ max_counter' =
          Appended(MaxCounter_push_str_contains_new_line(max_counter.counter, string), string,
                   "push_str_contains_new_line")
    /\ UNCHANGED builder_vars
    /\ UNCHANGED <<fs, fs_log, global_ids, conv>>
    /\ UNCHANGED sink_vars

\* halt() is polled and has returned true.
CallMaxCounterHalt ==
    /\ halt(max_counter.counter)
    /\ ~max_counter.halted
    /\ max_counter' = [max_counter EXCEPT !.halted = TRUE]
    /\ UNCHANGED builder_vars
    /\ UNCHANGED <<fs, fs_log, global_ids, conv>>
    /\ UNCHANGED sink_vars

MaxCounterInit ==
    /\ source_map = new
    /\ out = << >>
    /\ via = "SourceMap"
    /\ overflow_checks = "unobserved"
    /\ panicked = FALSE
    /\ calls = << >>
    /\ result = None
    /\ vlq = [value |-> isize(0), before |-> << >>, after |-> None]
    /\ fs = MapFileStore_default
    /\ fs_log = FsLog(<< >>)
    /\ global_ids = SourceIdsInit
    /\ conv = NoConversion
    /\ \E max \in MaxCounterMaxes : max_counter = MaxCounterFresh(max)
    /\ SinkInit

MaxCounterNext ==
    \/ \E chr \in MaxCounterChars : CallMaxCounterPush(chr)
    \/ CallMaxCounterPushNewLine
    \/ \E string \in MaxCounterStrings : CallMaxCounterPushStr(string)
    \/ \E string \in MaxCounterLines : CallMaxCounterPushStrContainsNewLine(string)
    \/ CallMaxCounterHalt

MaxCounterSpec == MaxCounterInit /\ [][MaxCounterNext]_vars

(***************************************************************************)
(* C19: on a bounded counter, once halt() has returned true it returns     *)
(* true after every further sequence of push, push_str, push_new_line and  *)
(* push_str_contains_new_line calls.                                       *)
(***************************************************************************)
C19_HaltIsStable ==
    max_counter.halted => halt(max_counter.counter)

C19_Witness ==
    /\ max_counter.halted
    /\ max_counter.after_halt >= 2
    /\ max_counter.appended > max_counter.counter.max + 4

(***************************************************************************)
(* C20: after any sequence of appends to MaxCounter::new(max), halt() is   *)
(* true exactly when the total UTF-8 byte length of everything appended is *)
(* strictly greater than max (11 bytes against max 14 does not halt, 22    *)
(* bytes does).                                                            *)
(***************************************************************************)
C20_HaltExactlyPastMax ==
    halt(max_counter.counter) <=> max_counter.appended > max_counter.counter.max

C20_Witness ==
    /\ max_counter.counter.max = 14
    /\ max_counter.appended = 22
    /\ max_counter.last = "push_str"
    /\ halt(max_counter.counter)

(***************************************************************************)
(* The counting sink (to_string.rs:200-232, Counter) beside the plain      *)
(* String sink (to_string.rs:30-48): a generator makes the same calls on   *)
(* both.                                                                   *)
(***************************************************************************)

\* to_string.rs:208-210
get_count(count) == count

\* to_string.rs:214-216
Counter_push(count, chr) == count + len_utf8(chr)

\* to_string.rs:218-220
Counter_push_new_line(count) == Counter_push(count, "\n")

\* to_string.rs:222-224: string.chars().count()
Counter_push_str(count, string) == count + chars_count(string)

\* to_string.rs:226-228
Counter_push_str_contains_new_line(count, string) == count + chars_count(string)

\* to_string.rs:31-33
String_push(string, chr) == Append(string, chr)

\* to_string.rs:35-37
String_push_new_line(string) == Append(string, "\n")

\* to_string.rs:39-41
String_push_str(string, pushed) == string \o pushed

\* to_string.rs:43-45
String_push_str_contains_new_line(string, pushed) == string \o pushed

(***************************************************************************)
(* CounterSpec: each call is made on a Counter and on a String.            *)
(***************************************************************************)
CounterChars == {" ", "U+00E9"}

CounterStrings == {Chars("Hello"), Chars("World"), <<"U+00E9", "U+1F600">>}

CounterLines == {Chars("a\nb")}

CounterLive == Len(text_counter.pieces) < MaxPieces

CallCounterPush(chr) ==
    /\ CounterLive
    /\ text_counter' = [count |-> Counter_push(text_counter.count, chr),
                        string |-> String_push(text_counter.string, chr),
                        pieces |-> Append(text_counter.pieces, <<chr>>)]
    /\ UNCHANGED builder_vars
    /\ UNCHANGED <<fs, fs_log, global_ids, conv, max_counter, endpoint, demo>>

CallCounterPushNewLine ==
    /\ CounterLive
    /\ text_counter' = [count |-> Counter_push_new_line(text_counter.count),
                        string |-> String_push_new_line(text_counter.string),
                        pieces |-> Append(text_counter.pieces, <<"\n">>)]
    /\ UNCHANGED builder_vars
    /\ UNCHANGED <<fs, fs_log, global_ids, conv, max_counter, endpoint, demo>>

CallCounterPushStr(string) ==
    /\ CounterLive
    /\ text_counter' = [count |-> Counter_push_str(text_counter.count, string),
                        string |-> String_push_str(text_counter.string, string),
                        pieces |-> Append(text_counter.pieces, string)]
    /\ UNCHANGED builder_vars
    /\ UNCHANGED <<fs, fs_log, global_ids, conv, max_counter, endpoint, demo>>

CallCounterPushStrContainsNewLine(string) ==
    /\ CounterLive
    /\ text_counter' =
          [count |-> Counter_push_str_contains_new_line(text_counter.count, string),
           string |-> String_push_str_contains_new_line(text_counter.string, string),
           pieces |-> Append(text_counter.pieces, string)]
    /\ UNCHANGED builder_vars
    /\ UNCHANGED <<fs, fs_log, global_ids, conv, max_counter, endpoint, demo>>

CounterInit == Init /\ via = "SourceMap"

CounterNext ==
    \/ \E chr \in CounterChars : CallCounterPush(chr)
    \/ CallCounterPushNewLine
    \/ \E string \in CounterStrings : CallCounterPushStr(string)
    \/ \E string \in CounterLines : CallCounterPushStrContainsNewLine(string)

CounterSpec == CounterInit /\ [][CounterNext]_vars

(***************************************************************************)
(* C21: for any sequence of push, push_str, push_new_line and              *)
(* push_str_contains_new_line calls, Counter::get_count equals the UTF-8   *)
(* byte length of the text the plain String sink produces for the same     *)
(* calls, and that text is the in-order concatenation of the pushed pieces.*)
(***************************************************************************)
C21_CountIsByteLength ==
    /\ get_count(text_counter.count) = Len(as_bytes(text_counter.string))
    /\ text_counter.string = Concat(text_counter.pieces, 1, Len(text_counter.pieces))

(***************************************************************************)
(* PushStrSpec: a sink that carries a builder is handed, through push_str, *)
(* strings that contain line feeds, after long and short lines.            *)
(***************************************************************************)
\* The length of a long line: one short string more passes the u8 column.
LongLineLength == 254

LongLine == [i \in 1..LongLineLength |-> "a"]

PushStrNewLineInputs == {Chars("a\nb"), Chars("\n")}

PushStrInputs == PushStrNewLineInputs \cup {LongLine}

PushStrInit == Init /\ via = "ToStringer"

PushStrNext ==
    \/ \E slice \in PushStrInputs : CallPushStr(slice)
    \/ CallPushNewLine
    \/ \E input \in SinkMappingInputs : CallAddMapping(input[1], input[2])
    \/ CallToString
    \/ CallBuildWithInlineSourceMap

PushStrSpec == PushStrInit /\ [][PushStrNext]_vars

(***************************************************************************)
(* C22: calling push_str with a string that contains '\n' never fails or   *)
(* aborts a sink, whatever its length and whatever was pushed before: the  *)
(* text is appended in full, no Break is recorded for it, and later        *)
(* operations and the final build still succeed.                           *)
(***************************************************************************)
C22_PushStrWithNewLineNeverFails ==
    [][\A slice \in PushStrNewLineInputs :
          CallPushStr(slice) =>
              /\ ~panicked'
              /\ out' = out \o slice
              /\ CountOf(source_map'.buf, ";") = CountOf(source_map.buf, ";")
              /\ result' = None]_vars

(***************************************************************************)
(* LookupSpec: handles that are null, stale or foreign are looked up in a  *)
(* store, and unregistered sources are mapped on a builder.                *)
(***************************************************************************)
LookupIds == {null, 1, 2, 3, u8_MAX}

LookupPaths == {Chars("a.ts")}

LookupContents == {Chars("a\nb"), << >>}

LookupMappings == {<<<<1, 0>>, null>>, <<<<1, 0>>, 1>>}

\* filesystem.rs:141-147 (and the readers built on it, filesystem.rs:77-113):
\* the callback is run on the source the handle indexes.
CallGetSourceById(id) ==
    /\ FsLive
    /\ panicked' = (get_source_by_id(fs, id) = None)
    /\ fs_log' = FsLookedUp("get_source_by_id", id, get_source_by_id(fs, id))
    /\ UNCHANGED <<source_map, out, via, overflow_checks, calls, result, vlq>>
    /\ UNCHANGED <<fs, global_ids, conv, max_counter>>
    /\ UNCHANGED sink_vars

LookupInit == FsInit /\ fs = MapFileStore_default

LookupNext ==
    \/ \E path \in LookupPaths, content \in LookupContents : CallNewSourceId(path, content)
    \/ \E id \in LookupIds : CallGetSourceById(id)
    \/ \E id \in LookupIds, content \in LookupContents : CallUpdateFile(id, content)
    \/ \E id \in LookupIds, content \in FsSuffixes : CallAppendToFile(id, content)
    \/ \E input \in LookupMappings : CallAddMapping(input[1], input[2])

LookupSpec == LookupInit /\ [][LookupNext]_vars

\* The handle is null or was never allocated by the store.
NeverAllocated(id) == \A k \in 1..Len(fs_log.allocated) : fs_log.allocated[k] # Some(id)

(***************************************************************************)
(* C23: looking up a SourceId that is null or was never allocated by this  *)
(* registry (get_source_by_id, update_file, append_to_file, or add_mapping *)
(* on a builder that resolves the source) aborts immediately with a panic; *)
(* it never runs the callback on, reads, or mutates some other source.     *)
(***************************************************************************)
C23_UnknownHandlePanics ==
    [][/\ \A id \in LookupIds :
             (/\ NeverAllocated(id)
              /\ \/ CallGetSourceById(id)
                 \/ \E content \in LookupContents : CallUpdateFile(id, content)
                 \/ \E content \in FsSuffixes : CallAppendToFile(id, content))
             => /\ panicked'
                /\ fs' = fs
                /\ fs_log'.read = None
       /\ \A input \in LookupMappings :
             (/\ input[2] \notin DOMAIN SOURCE_IDS
              /\ CallAddMapping(input[1], input[2]))
             => /\ panicked'
                /\ source_map'.sources = source_map.sources
                /\ source_map'.sources_map = source_map.sources_map]_vars

C23_Witness ==
    /\ panicked
    /\ Len(fs.sources) = 2
    /\ fs_log.lookup = Some(<<"get_source_by_id", 3>>)
    /\ fs_log.read = None

(***************************************************************************)
(* The process-wide registry under threads (source_id.rs:11-105,           *)
(* filesystem.rs:15-51): SOURCE_IDS_TO_FILES is behind an RwLock.  A       *)
(* registration takes its handle from the atomic counter, then takes the   *)
(* write lock, inserts and releases; a read takes the read lock, looks the *)
(* handle up and releases.  writer is the thread that holds the write lock *)
(* (0: none), readers the threads that hold the read lock.                 *)
(***************************************************************************)
GlobalArgs == {<<Chars("a.ts"), Chars("x")>>, <<Chars("b.ts"), Chars("y\n")>>}

\* The registry after SourceId::new("", "") has returned count times.
GlobalAfterCalls(count) ==
    [SourceIdsInit EXCEPT
        !.counter = count + 1,
        !.files = [id \in 1..count |-> << << >>, << >> >>],
        !.returned = [id \in 0..u8_MAX |-> IF id \in 1..count THEN 1 ELSE 0]]

\* source_id.rs:71-73: SOURCE_IDS_TO_FILES.read().unwrap().get(self).cloned()
get_file(ids, source_id) ==
    IF source_id \in DOMAIN ids.files THEN Some(ids.files[source_id]) ELSE None

GlobalIdle(thread) ==
    /\ global_ids.pending[thread] = None
    /\ global_ids.reading[thread] = None

\* source_id.rs:51
GlobalNewFetchAdd(thread, path, content) ==
    /\ GlobalIdle(thread)
    /\ global_ids.calls < MaxGlobalCalls
    /\ global_ids' = [fetch_add(global_ids, thread) EXCEPT
                         !.args[thread] = Some(<<path, content>>)]
    /\ UNCHANGED builder_vars
    /\ UNCHANGED <<fs, fs_log, conv, max_counter>>
    /\ UNCHANGED sink_vars

\* source_id.rs:53-54: SOURCE_IDS_TO_FILES.write() blocks while the lock is held.
GlobalNewWriteLock(thread) ==
    /\ global_ids.pending[thread] # None
    /\ global_ids.writer = 0
    /\ global_ids.readers = {}
    /\ global_ids' = [global_ids EXCEPT !.writer = thread]
    /\ UNCHANGED builder_vars
    /\ UNCHANGED <<fs, fs_log, conv, max_counter>>
    /\ UNCHANGED sink_vars

\* source_id.rs:56-58: insert, release the lock at the end of the statement
\* and return the handle.
GlobalNewInsert(thread) ==
    /\ global_ids.writer = thread
    /\ LET source_id == global_ids.pending[thread][1]
           passed == global_ids.args[thread][1]
       IN  global_ids' =
              [insert_and_return(global_ids, thread, passed[1], passed[2]) EXCEPT
                  !.writer = 0,
                  !.args[thread] = None,
                  !.log = Append(@, [id |-> source_id, path |-> passed[1],
                                     content |-> passed[2]])]
    /\ UNCHANGED builder_vars
    /\ UNCHANGED <<fs, fs_log, conv, max_counter>>
    /\ UNCHANGED sink_vars

\* source_id.rs:72: SOURCE_IDS_TO_FILES.read() blocks while a writer holds the lock.
GlobalGetFileReadLock(thread, source_id) ==
    /\ GlobalIdle(thread)
    /\ global_ids.writer = 0
    /\ global_ids' = [global_ids EXCEPT !.readers = @ \cup {thread},
                                        !.reading[thread] = Some(source_id)]
    /\ UNCHANGED builder_vars
    /\ UNCHANGED <<fs, fs_log, conv, max_counter>>
    /\ UNCHANGED sink_vars

\* source_id.rs:72: the entry is cloned, the lock released, the clone returned.
GlobalGetFileReturn(thread) ==
    /\ thread \in global_ids.readers
    /\ global_ids' =
          [global_ids EXCEPT
              !.readers = @ \ {thread},
              !.reading[thread] = None,
              !.looked = Some([id |-> global_ids.reading[thread][1],
                               file |-> get_file(global_ids, global_ids.reading[thread][1])])]
    /\ UNCHANGED builder_vars
    /\ UNCHANGED <<fs, fs_log, conv, max_counter>>
    /\ UNCHANGED sink_vars

GlobalInit ==
    /\ source_map = new
    /\ out = << >>
    /\ via = "SourceMap"
    /\ overflow_checks = "unobserved"
    /\ panicked = FALSE
    /\ calls = << >>
    /\ result = None
    /\ vlq = [value |-> isize(0), before |-> << >>, after |-> None]
    /\ fs = MapFileStore_default
    /\ fs_log = FsLog(<< >>)
    /\ \E count \in {0, GlobalManyCalls} : global_ids = GlobalAfterCalls(count)
    /\ conv = NoConversion
    /\ max_counter = MaxCounterFresh(0)
    /\ SinkInit

\* The handles a read asks for: those the calls of this run can return.
GlobalReadIds == {null, 1, 2, u8_MAX}

GlobalNext ==
    \E thread \in Threads :
        \/ \E passed \in GlobalArgs : GlobalNewFetchAdd(thread, passed[1], passed[2])
        \/ GlobalNewWriteLock(thread)
        \/ GlobalNewInsert(thread)
        \/ \E source_id \in GlobalReadIds : GlobalGetFileReadLock(thread, source_id)
        \/ GlobalGetFileReturn(thread)

GlobalSpec == GlobalInit /\ [][GlobalNext]_vars

\* A thread is inside a call and cannot take its next step.
GlobalBlocked(thread) ==
    /\ global_ids.pending[thread] # None
    /\ global_ids.writer # thread
    /\ ~(global_ids.writer = 0 /\ global_ids.readers = {})

GlobalInCall(thread) == ~GlobalIdle(thread)

(***************************************************************************)
(* C24: under every interleaving of threads that concurrently register     *)
(* sources in the process-wide registry, each call returns a distinct      *)
(* non-null handle, and once a call has returned, looking up its handle    *)
(* yields exactly the path and content passed to that call; no             *)
(* interleaving of registrations and reads deadlocks.                      *)
(***************************************************************************)
C24_ConcurrentRegistration ==
    /\ global_ids.returned[null] = 0
    /\ \A id \in 0..u8_MAX : global_ids.returned[id] <= 1
    /\ \A k \in 1..Len(global_ids.log) :
          get_file(global_ids, global_ids.log[k].id)
              = Some(<<global_ids.log[k].path, global_ids.log[k].content>>)
    /\ (\E thread \in Threads : GlobalInCall(thread))
          => \E thread \in Threads : GlobalInCall(thread) /\ ~GlobalBlocked(thread)

(***************************************************************************)
(* Span endpoints (span.rs:20-21, 165-185; filesystem.rs:91-101;           *)
(* span.rs:274-318).  A usize is a word of isize_BITS bits and a u32 a     *)
(* word of u32_BITS bits, least significant bit first, so that the values  *)
(* around 2^32 can be told apart.                                          *)
(***************************************************************************)
u32_BITS == 32

\* Bit i of a word; the bits above its width are 0.
Bit(word, i) == IF i \in DOMAIN word THEN word[i] ELSE 0

\* The usize whose set bits are at the given positions (bit 1 is 2^0).
usize_with_bits(ones) == [i \in 1..isize_BITS |-> IF i \in ones THEN 1 ELSE 0]

\* The u32 whose set bits are at the given positions.
u32_with_bits(ones) == [i \in 1..u32_BITS |-> IF i \in ones THEN 1 ELSE 0]

\* The carry that a + b sends into bit i.
carry_into(a, b, i) ==
    \E j \in 1..(i - 1) :
        /\ Bit(a, j) = 1 /\ Bit(b, j) = 1
        /\ \A k \in (j + 1)..(i - 1) : Bit(a, k) + Bit(b, k) >= 1

\* The low bits of a + b.
wrapping_add(a, b, bits) ==
    [i \in 1..bits |-> (Bit(a, i) + Bit(b, i) + (IF carry_into(a, b, i) THEN 1 ELSE 0)) % 2]

\* a + b leaves the u32 range / the usize range.
u32_add_overflows(a, b) == carry_into(a, b, u32_BITS + 1)

usize_add_overflows(a, b) == carry_into(a, b, isize_BITS + 1)

\* "len as u32": the low 32 bits, unchecked in every build.
as_u32(len) == [i \in 1..u32_BITS |-> len[i]]

\* usize -> u32 through TryFrom: an error when a bit above the 32nd is set.
try_into_u32(value) ==
    IF \E i \in (u32_BITS + 1)..isize_BITS : value[i] = 1
    THEN None
    ELSE Some(as_u32(value))

\* span.rs:179 and 183: self.0 + len as u32, under the build's overflow checks.
\* None is a panic.
start_plus_len(start, len, checks) ==
    IF u32_add_overflows(start, as_u32(len)) /\ checks = "on"
    THEN None
    ELSE Some(wrapping_add(start, as_u32(len), u32_BITS))

\* span.rs:174-180: Start::with_length, the span's start and end.
with_length(start, len, checks) ==
    LET end == start_plus_len(start, len, checks)
    IN  IF end = None THEN None ELSE Some(<<start, end[1]>>)

\* span.rs:182-184: Start::get_end_after.
get_end_after(start, len, checks) ==
    LET end == start_plus_len(start, len, checks)
    IN  IF end = None THEN None ELSE Some(<<end[1]>>)

\* filesystem.rs:91-101: get_file_whole_span of a source whose content has
\* len bytes: start 0, end content.len().try_into().expect(..).
get_file_whole_span(len) ==
    LET end == try_into_u32(len)
    IN  IF end = None THEN None ELSE Some(<<u32_with_bits({}), end[1]>>)

\* span.rs:281: (line_byte + column_length).try_into().unwrap().
scalar_endpoint(line_byte, column_length, checks) ==
    IF usize_add_overflows(line_byte, column_length) /\ checks = "on"
    THEN None
    ELSE try_into_u32(wrapping_add(line_byte, column_length, isize_BITS))

\* span.rs:274-283: into_scalar_position from the byte index of the line and
\* the byte count of the column.
endpoint_of_scalar_position(line_byte, column_length, checks) ==
    LET pos == scalar_endpoint(line_byte, column_length, checks)
    IN  IF pos = None THEN None ELSE Some(<<pos[1]>>)

\* span.rs:312-316: into_scalar_span, the start and then the end.
endpoints_of_scalar_span(line_start_byte, column_start_length, line_end_byte, column_end_length, checks) ==
    LET start == scalar_endpoint(line_start_byte, column_start_length, checks)
        end == scalar_endpoint(line_end_byte, column_end_length, checks)
    IN  IF start = None \/ end = None THEN None ELSE Some(<<start[1], end[1]>>)

(***************************************************************************)
(* EndpointSpec: the five conversions are called with starts, lengths and  *)
(* byte indexes on both sides of 2^32.  A content's length, and so a line  *)
(* start or a column's byte count, is below 2^63; the len argument of      *)
(* with_length and get_end_after is whatever the caller passes.            *)
(***************************************************************************)
EndpointStarts == {u32_with_bits({}), u32_with_bits({1}), u32_with_bits(1..32)}

EndpointByteCounts ==
    {usize_with_bits({}), usize_with_bits({1}), usize_with_bits(1..32),
     usize_with_bits({33}), usize_with_bits({63})}

EndpointColumns == {usize_with_bits({}), usize_with_bits({1})}

EndpointLens ==
    {usize_with_bits({}), usize_with_bits({1}), usize_with_bits(1..32),
     usize_with_bits({33}), usize_with_bits({1, 33}), usize_with_bits(1..64)}

\* The overflow checks a conversion can run under: an overflow shows the
\* build profile, and every later call runs under the same.
EndpointChecks(overflows) ==
    IF overflows /\ overflow_checks = "unobserved"
    THEN {"on", "off"}
    ELSE {overflow_checks}

Converted(op, input, returned) ==
    [op |-> op, input |-> input,
     outcome |-> IF returned = None THEN "panicked" ELSE "returned",
     returned |-> IF returned = None THEN << >> ELSE returned[1]]

CallWithLength(start, len) ==
    /\ \E checks \in EndpointChecks(u32_add_overflows(start, as_u32(len))) :
          /\ overflow_checks' = checks
          /\ endpoint' = Converted("with_length", <<start, len>>,
                                   with_length(start, len, checks))
    /\ UNCHANGED <<source_map, out, via, panicked, calls, result, vlq>>
    /\ UNCHANGED <<fs, fs_log, global_ids, conv, max_counter, text_counter, demo>>

CallGetEndAfter(start, len) ==
    /\ \E checks \in EndpointChecks(u32_add_overflows(start, as_u32(len))) :
          /\ overflow_checks' = checks
          /\ endpoint' = Converted("get_end_after", <<start, len>>,
                                   get_end_after(start, len, checks))
    /\ UNCHANGED <<source_map, out, via, panicked, calls, result, vlq>>
    /\ UNCHANGED <<fs, fs_log, global_ids, conv, max_counter, text_counter, demo>>

CallGetFileWholeSpan(len) ==
    /\ endpoint' = Converted("get_file_whole_span", <<len>>, get_file_whole_span(len))
    /\ UNCHANGED builder_vars
    /\ UNCHANGED <<fs, fs_log, global_ids, conv, max_counter, text_counter, demo>>

CallEndpointOfScalarPosition(line_byte, column_length) ==
    /\ \E checks \in EndpointChecks(usize_add_overflows(line_byte, column_length)) :
          /\ overflow_checks' = checks
          /\ endpoint' = Converted("into_scalar_position", <<line_byte, column_length>>,
                             endpoint_of_scalar_position(line_byte, column_length, checks))
    /\ UNCHANGED <<source_map, out, via, panicked, calls, result, vlq>>
    /\ UNCHANGED <<fs, fs_log, global_ids, conv, max_counter, text_counter, demo>>

CallEndpointsOfScalarSpan(line_start_byte, column_length, line_end_byte) ==
    /\ \E checks \in EndpointChecks(usize_add_overflows(line_start_byte, column_length)
                                    \/ usize_add_overflows(line_end_byte, column_length)) :
          /\ overflow_checks' = checks
          /\ endpoint' = Converted("into_scalar_span",
                             <<line_start_byte, column_length, line_end_byte, column_length>>,
                             endpoints_of_scalar_span(line_start_byte, column_length,
                                                      line_end_byte, column_length, checks))
    /\ UNCHANGED <<source_map, out, via, panicked, calls, result, vlq>>
    /\ UNCHANGED <<fs, fs_log, global_ids, conv, max_counter, text_counter, demo>>

EndpointInit == Init /\ via = "SourceMap"

EndpointNext ==
    \/ \E start \in EndpointStarts, len \in EndpointLens : CallWithLength(start, len)
    \/ \E start \in EndpointStarts, len \in EndpointLens : CallGetEndAfter(start, len)
    \/ \E len \in EndpointByteCounts : CallGetFileWholeSpan(len)
    \/ \E line_byte, column_length \in EndpointByteCounts :
           CallEndpointOfScalarPosition(line_byte, column_length)
    \/ \E line_start_byte, line_end_byte \in EndpointByteCounts,
          column_length \in EndpointColumns :
           CallEndpointsOfScalarSpan(line_start_byte, column_length, line_end_byte)

EndpointSpec == EndpointInit /\ [][EndpointNext]_vars

\* Two words hold the same number.
SameNumber(a, b) == \A i \in 1..(isize_BITS + 1) : Bit(a, i) = Bit(b, i)

\* The sum of two words as a number: one bit more than a usize.
ExactSum(a, b) == wrapping_add(a, b, isize_BITS + 1)

\* The endpoints that the conversion of the recorded arguments stands for.
ExactEndpoints(op, input) ==
    CASE op = "with_length" -> <<input[1], ExactSum(input[1], input[2])>>
      [] op = "get_end_after" -> <<ExactSum(input[1], input[2])>>
      [] op = "get_file_whole_span" -> <<u32_with_bits({}), input[1]>>
      [] op = "into_scalar_position" -> <<ExactSum(input[1], input[2])>>
      [] op = "into_scalar_span" ->
             <<ExactSum(input[1], input[2]), ExactSum(input[3], input[4])>>
      [] OTHER -> << >>

(***************************************************************************)
(* C25: every conversion of a length or byte offset into a 32-bit span     *)
(* endpoint (get_file_whole_span, Start::with_length, Start::get_end_after,*)
(* into_scalar_position, into_scalar_span) either yields the exact value   *)
(* or fails; none returns a wrapped or truncated offset.                   *)
(***************************************************************************)
C25_EndpointsExactOrFail ==
    endpoint.outcome = "returned" =>
        LET exact == ExactEndpoints(endpoint.op, endpoint.input)
        IN  /\ Len(endpoint.returned) = Len(exact)
            /\ \A k \in 1..Len(exact) : SameNumber(endpoint.returned[k], exact[k])

(***************************************************************************)
(* The whitespace-removing generator (examples/source_map_creation.rs).    *)
(* SplitIndices walks the input's characters: last_match is the byte index *)
(* after the last separator found, index the number of characters the      *)
(* char iterator has handed out.                                           *)
(***************************************************************************)
\* char::is_whitespace on the characters of the inputs.
is_whitespace(chr) == chr \in {" ", "\n", "\t", "\r"}

\* examples/source_map_creation.rs:20-32
split_indices_from_str(string) ==
    [string |-> string, last_match |-> 0, index |-> 0, exhausted |-> FALSE]

\* examples/source_map_creation.rs:37-60: Iterator::next on a generator that
\* is not exhausted: the generator afterwards, the byte range and the chunk.
SplitIndices_next(split) ==
    LET string == split.string
        found == {k \in (split.index + 1)..Len(string) : is_whitespace(string[k])}
    IN  IF found # {}
        THEN LET k == CHOOSE i \in found : \A j \in found : i <= j
                 idx == str_len(SubSeq(string, 1, k - 1))
                 start == split.last_match
             IN  [split |-> [split EXCEPT !.last_match = idx + len_utf8(string[k]),
                                          !.index = k],
                  range |-> <<start, idx>>,
                  chunk |-> str_index(string, start, idx)]
        ELSE [split |-> [split EXCEPT !.exhausted = TRUE, !.index = Len(string)],
              range |-> <<split.last_match, str_len(string)>>,
              chunk |-> str_index(string, split.last_match, str_len(string))]

\* The handle SourceId::new gives the generator's input: the first one of the
\* process (examples/source_map_creation.rs:66).
DemoSourceId == 1

\* The mapping of a span on the builder: the line (one-indexed, lib.rs:186)
\* and the column of the span's start in the source, through the source's
\* line starts.
span_position(string, start) ==
    LET position == get_line_and_column_pos_is_on(LineStarts_new(string), start)
    IN  <<position[1] + 1, position[2]>>

\* examples/source_map_creation.rs:68-77: one turn of the loop.  A chunk that
\* is not empty is mapped and then pushed; the push panics when the column
\* overflows under overflow checks.
remove_whitespace_turn(split, sm, buf, checks) ==
    LET item == SplitIndices_next(split)
        position == span_position(split.string, item.range[1])
        mapped == add_mapping(sm, position[1], position[2], DemoSourceId)
    IN  IF item.chunk = << >>
        THEN [split |-> item.split, sm |-> sm, buf |-> buf, panicked |-> FALSE]
        ELSE IF checks = "on" /\ add_to_column_overflows(mapped, chars_count(item.chunk))
        THEN [split |-> item.split, sm |-> mapped, buf |-> buf, panicked |-> TRUE]
        ELSE [split |-> item.split,
              sm |-> push_str(buf, mapped, item.chunk)[2],
              buf |-> push_str(buf, mapped, item.chunk)[1],
              panicked |-> FALSE]

(***************************************************************************)
(* DemoSpec: the generator is run on single-line inputs of words separated *)
(* by single spaces, one turn of its loop at a time, on a sink that        *)
(* carries a fresh builder.                                                *)
(***************************************************************************)
MaxDemoWords == 3

\* The length of a long word: two of them pass the u8 column.
DemoLongWordLength == (u8_MAX + 1) \div 2

DemoWords == {Chars("a"), Chars("bc"), Chars("one")}

DemoLongWord == [i \in 1..DemoLongWordLength |-> "a"]

RECURSIVE JoinWords(_)
JoinWords(words) ==
    IF Len(words) = 1 THEN words[1]
    ELSE JoinWords(SubSeq(words, 1, Len(words) - 1)) \o <<" ">> \o words[Len(words)]

DemoInputs ==
    {JoinWords(words) : words \in UNION {[1..n -> DemoWords] : n \in 1..MaxDemoWords}}
        \cup {Chars("one two three four five six"),
              JoinWords(<<DemoLongWord, DemoLongWord>>)}

DemoRunning == demo.string # << >> /\ ~demo.exhausted /\ ~panicked

DemoFinished == demo.string # << >> /\ demo.exhausted /\ ~panicked

CallRemoveWhitespace(string) ==
    /\ demo = NoDemo
    /\ demo' = split_indices_from_str(string)
    /\ UNCHANGED builder_vars
    /\ UNCHANGED <<fs, fs_log, global_ids, conv, max_counter, text_counter, endpoint>>

RemoveWhitespaceTurn ==
    /\ DemoRunning
    /\ LET chunk == SplitIndices_next(demo).chunk
       IN  \E checks \in ObservedChecks(source_map, chars_count(chunk)) :
              LET turn == remove_whitespace_turn(demo, source_map, out, checks)
              IN  /\ overflow_checks' = checks
                  /\ demo' = turn.split
                  /\ source_map' = turn.sm
                  /\ out' = turn.buf
                  /\ panicked' = turn.panicked
    /\ UNCHANGED <<via, calls, result, vlq>>
    /\ UNCHANGED <<fs, fs_log, global_ids, conv, max_counter, text_counter, endpoint>>

DemoInit == Init /\ via = "ToStringer"

DemoNext ==
    \/ \E string \in DemoInputs : CallRemoveWhitespace(string)
    \/ RemoveWhitespaceTurn

DemoSpec == DemoInit /\ [][DemoNext]_vars

(***************************************************************************)
(* Reading the raw fields of the mappings string: one entry per segment,   *)
(* with its output line and the VLQ values as written.                     *)
(***************************************************************************)
FieldsFlush(st) ==
    IF st.fields = << >> THEN st
    ELSE [st EXCEPT !.fields = << >>,
                    !.segments = Append(@, [line |-> st.line, fields |-> st.fields])]

FieldsStep(st, c) ==
    IF c = ";" THEN [FieldsFlush(st) EXCEPT !.line = @ + 1]
    ELSE IF c = "," THEN FieldsFlush(st)
    ELSE DecoderStep(st, c)

RECURSIVE FieldsRun(_, _, _)
FieldsRun(st, buf, i) ==
    IF i > Len(buf) THEN FieldsFlush(st)
    ELSE FieldsRun(FieldsStep(st, buf[i]), buf, i + 1)

RawSegments(buf) == FieldsRun(DecoderStart, buf, 1).segments

\* The words of a line: the runs of characters between its spaces.
RECURSIVE WordsOf(_)
WordsOf(string) ==
    IF \A i \in 1..Len(string) : string[i] # " " THEN <<string>>
    ELSE LET space == CHOOSE i \in 1..Len(string) :
                          string[i] = " " /\ \A j \in 1..(i - 1) : string[j] # " "
         IN  <<SubSeq(string, 1, space - 1)>>
                 \o WordsOf(SubSeq(string, space + 1, Len(string)))

(***************************************************************************)
(* C26: the whitespace-splitting generator (add_mapping at each non-empty  *)
(* word's byte range, then push_str of the word), run on a single-line     *)
(* input of words separated by single spaces, completes with a mappings    *)
(* string of exactly one segment per word, all on output line zero and     *)
(* separated by ',', and every segment after the first has a source-column *)
(* delta equal to the preceding word's length + 1.                         *)
(***************************************************************************)
C26_DemoSegmentPerWord ==
    /\ demo.string # << >> => ~panicked
    /\ DemoFinished =>
          LET words == WordsOf(demo.string)
              segments == RawSegments(source_map.buf)
          IN  /\ Len(segments) = Len(words)
              /\ CountOf(source_map.buf, ",") = Len(words) - 1
              /\ CountOf(source_map.buf, ";") = 0
              /\ \A k \in 1..Len(segments) :
                    /\ segments[k].line = 0
                    /\ Len(segments[k].fields) = 4
                    /\ k > 1 => segments[k].fields[4] = Len(words[k - 1]) + 1

(***************************************************************************)
(* The column the caller has asked for: the lengths handed to              *)
(* add_to_column since the last add_new_line.                              *)
(***************************************************************************)
RECURSIVE ColumnAsked(_)
ColumnAsked(history) ==
    IF history = << >> THEN 0
    ELSE LET call == history[Len(history)]
             before == SubSeq(history, 1, Len(history) - 1)
         IN  IF call.op = "add_new_line" THEN 0
             ELSE IF call.op = "add_to_column" THEN ColumnAsked(before) + call.length
             ELSE ColumnAsked(before)

(***************************************************************************)
(* C27: add_to_column(n) adds exactly n to the builder's current output    *)
(* column whenever the sum fits in 32 bits: after additions totalling k on *)
(* one output line the tracked column is k, with no wrap-around,           *)
(* truncation or abort.                                                    *)
(***************************************************************************)
C27_ColumnAddsExactly ==
    via = "SourceMap" =>
        /\ ~(panicked /\ calls[Len(calls)].op = "add_to_column")
        /\ source_map.column = ColumnAsked(calls)

(***************************************************************************)
(* SegmentSpec: mappings to the starts of source lines, within a line and  *)
(* to a far source line are recorded on a builder, with Breaks and column  *)
(* advances between them.                                                  *)
(***************************************************************************)
SegmentInit == Init /\ via = "SourceMap"

SegmentNext ==
    \/ \E input \in SegmentInputs : CallAddMapping(input[1], input[2])
    \/ CallAddNewLine
    \/ CallAddToColumn(1)

SegmentSpec == SegmentInit /\ [][SegmentNext]_vars

\* The fields a mapping call asks for, given the mapping call before it (none
\* for the first): the output column counts from the previous mapping on the
\* same output line, the source line and column from the previous mapping.
AskedFields(mappings, k) ==
    LET first == k = 1
        previous == IF first THEN mappings[k] ELSE mappings[k - 1]
    IN  [column |-> mappings[k].column
                        - (IF ~first /\ previous.line = mappings[k].line
                           THEN previous.column ELSE 0),
         source_line |-> (mappings[k].original_line - 1)
                             - (IF first THEN 0 ELSE previous.original_line - 1),
         source_column |-> mappings[k].original_column
                               - (IF first THEN 0 ELSE previous.original_column)]

(***************************************************************************)
(* C28: each segment's output-column field is the mapping's output column  *)
(* minus that of the previous mapping on the same output line (minus 0     *)
(* after a Break or at the start); its source-line and source-column       *)
(* fields are differences from the previous mapping's source line and      *)
(* column, carried across Breaks and starting from 0.  A first mapping at  *)
(* output column 0 to line 0, column 0 of the first source is "AAAA"; a    *)
(* mapping to the start of source line 1 after a Break that follows a      *)
(* mapping to the start of source line 0 has source-line delta +1 and      *)
(* source-column delta 0.                                                  *)
(***************************************************************************)
C28_SegmentFieldsAreDeltas ==
    ~panicked =>
        LET mappings == MappingCalls(calls)
            segments == RawSegments(source_map.buf)
        IN  /\ Len(segments) = Len(mappings)
            /\ \A k \in 1..Len(segments) :
                  /\ Len(segments[k].fields) = 4
                  /\ segments[k].fields[1] = AskedFields(mappings, k).column
                  /\ segments[k].fields[3] = AskedFields(mappings, k).source_line
                  /\ segments[k].fields[4] = AskedFields(mappings, k).source_column
            /\ \A id \in {1, 2} :
                  /\ calls = <<MappingCall(new, 1, 0, id)>> => source_map.buf = Chars("AAAA")
                  /\ (/\ Len(calls) = 3
                      /\ calls[1] = MappingCall(new, 1, 0, id)
                      /\ calls[2] = NewLineCall
                      /\ calls[3].op = "add_mapping"
                      /\ calls[3].original_line = 2 /\ calls[3].original_column = 0)
                         => /\ segments[2].fields[3] = 1
                            /\ segments[2].fields[4] = 0

\* The zero-based position of a source in a sources list that holds it.
PositionIn(sources, source) == (CHOOSE i \in 1..Len(sources) : sources[i] = source) - 1

(***************************************************************************)
(* C29: the second VLQ field of every segment is the absolute position of  *)
(* the mapping's source in the sources list, not a delta against the       *)
(* source index of the previous segment, for every sequence of mappings    *)
(* over the sources.                                                       *)
(***************************************************************************)
C29_SourceFieldIsAbsolute ==
    ~panicked =>
        LET mappings == MappingCalls(calls)
            segments == RawSegments(source_map.buf)
        IN  /\ Len(segments) = Len(mappings)
            /\ \A k \in 1..Len(segments) :
                  /\ \E i \in 1..Len(source_map.sources) :
                        source_map.sources[i] = SOURCE_IDS[mappings[k].source_id]
                  /\ segments[k].fields[2]
                        = PositionIn(source_map.sources, SOURCE_IDS[mappings[k].source_id])

\* Three mappings to the first, the second and again the second source listed:
\* the third source field is 1 where a delta would be 0.
C29_Witness ==
    /\ ~panicked
    /\ Len(MappingCalls(calls)) = 3
    /\ MappingCalls(calls)[1].source_id # MappingCalls(calls)[2].source_id
    /\ MappingCalls(calls)[2].source_id = MappingCalls(calls)[3].source_id
    /\ RawSegments(source_map.buf)[3].fields[2] = 1

\* The sources a sequence of mapping calls refers to, each once, in the order
\* of first reference.
RECURSIVE FirstReferences(_)
FirstReferences(mappings) ==
    IF mappings = << >> THEN << >>
    ELSE LET before == FirstReferences(SubSeq(mappings, 1, Len(mappings) - 1))
             id == mappings[Len(mappings)].source_id
         IN  IF \E i \in 1..Len(before) : before[i] = id THEN before
             ELSE Append(before, id)

\* The mapping calls whose source is registered, and the segments written in
\* full: a call with an unregistered source panics before its source field.
RegisteredMappings(history) ==
    SelectSeq(MappingCalls(history), LAMBDA call : call.source_id \in DOMAIN SOURCE_IDS)

FullSegments(buf) == SelectSeq(RawSegments(buf), LAMBDA segment : Len(segment.fields) = 4)

(***************************************************************************)
(* C30: after any sequence of add_mapping, add_new_line and add_to_column  *)
(* calls, the sources list contains every source referenced by a mapping   *)
(* exactly once, in order of first reference (the first source mapped is   *)
(* at position 0), and every source index written into a segment is a      *)
(* valid position in that list holding that mapping's source.              *)
(***************************************************************************)
C30_SourcesListedOnce ==
    LET mappings == RegisteredMappings(calls)
        referenced == FirstReferences(mappings)
        segments == FullSegments(source_map.buf)
        sources == source_map.sources
    IN  /\ Len(sources) = Len(referenced)
        /\ \A i \in 1..Len(sources) : sources[i] = SOURCE_IDS[referenced[i]]
        /\ \A i, j \in 1..Len(sources) : sources[i] = sources[j] => i = j
        /\ Len(segments) = Len(mappings)
        /\ \A k \in 1..Len(segments) :
              /\ segments[k].fields[2] \in 0..(Len(sources) - 1)
              /\ sources[segments[k].fields[2] + 1] = SOURCE_IDS[mappings[k].source_id]

\* Two sources, the second registered one referenced first and again after
\* the other one.
C30_Witness ==
    /\ ~panicked
    /\ Len(RegisteredMappings(calls)) = 3
    /\ FirstReferences(RegisteredMappings(calls)) = <<2, 1>>
    /\ RegisteredMappings(calls)[3].source_id = 2
    /\ Len(source_map.sources) = 2

(***************************************************************************)
(* NewLineSpec: text without line feeds, line feeds and slices with none,  *)
(* one and several line feeds are written to a sink that carries a         *)
(* builder.                                                                *)
(***************************************************************************)
NewLineSlices == {Chars("a\nbc"), Chars("\n\nx"), Chars("no")}

NewLineInit == Init /\ via = "ToStringer"

NewLineNext ==
    \/ \E chr \in CharInputs : CallPush(chr)
    \/ \E slice \in StrInputs : CallPushStr(slice)
    \/ CallPushNewLine
    \/ \E slice \in NewLineSlices : CallPushStrContainsNewLine(slice)

NewLineSpec == NewLineInit /\ [][NewLineNext]_vars

byte_indexes_crosses_lines_inclusive(line_starts, pos1, pos2) ==
    Cardinality({i \in 1..Len(line_starts) :
                    line_starts[i] > pos1 /\ line_starts[i] <= pos2 + 1})

\* lines_columns_indexes.rs:32-37
byte_indexes_crosses_lines(line_starts, pos1, pos2) ==
    get_line_pos_is_on(line_starts, pos2) - get_line_pos_is_on(line_starts, pos1)

\* lines_columns_indexes.rs:39-41
byte_indexes_on_different_lines(line_starts, pos1, pos2) ==
    byte_indexes_crosses_lines(line_starts, pos1, pos2) > 0

\* lines_columns_indexes.rs:20-30: the first window w[0]..=w[1] of two
\* neighbouring line starts that contains pos1; expect panics without one.
byte_indexes_on_same_line(line_starts, pos1, pos2) ==
    LET found == {w \in 1..(Len(line_starts) - 1) :
                     line_starts[w] <= pos1 /\ pos1 <= line_starts[w + 1]}
    IN  IF found = {} THEN None
        ELSE LET w == CHOOSE i \in found : \A j \in found : i <= j
             IN  Some(line_starts[w] <= pos2 /\ pos2 <= line_starts[w + 1])

\* slice::binary_search over line_starts[left..right] (0-based, right
\* excluded): <<"Ok", index>> or <<"Err", insertion index>>.
RECURSIVE binary_search(_, _, _, _)
binary_search(line_starts, byte_index, left, right) ==
    IF left >= right THEN <<"Err", left>>
    ELSE LET mid == left + ((right - left) \div 2)
         IN  IF line_starts[mid + 1] < byte_index
             THEN binary_search(line_starts, byte_index, mid + 1, right)
             ELSE IF line_starts[mid + 1] > byte_index
             THEN binary_search(line_starts, byte_index, left, mid)
             ELSE <<"Ok", mid>>

\* Mutant: a miss is answered with the insertion index itself.
line_index_of_next_line(line_starts, byte_index) ==
    binary_search(line_starts, byte_index, 0, Len(line_starts))[2]

\* filesystem.rs:239-251: binary_search(..).unwrap_or_else(|next_line| next_line - 1)
line_index(line_starts, byte_index) ==
    LET found == binary_search(line_starts, byte_index, 0, Len(line_starts))
    IN  IF found[1] = "Ok" THEN found[2] ELSE found[2] - 1

(***************************************************************************)
(* LinesSpec: a store holds one source, registered whole or registered and *)
(* then appended to, and its line starts are queried.                      *)
(***************************************************************************)
LinesMaxOffset == 7

LinesContents ==
    {<< >>, Chars("ab"), Chars("a\nb"), Chars("\n"), Chars("a\n\nb"),
     <<"U+00E9", "\n", "b", "\n">>, Chars("a\r\nb")}

LinesSuffixes == {Chars("\nc"), Chars("c\n")}

LinesOffsets == 0..LinesMaxOffset

\* The source the queries are about.
LinesSource == fs.sources[1]

LinesQuery(op, offsets, returned) ==
    [op |-> op, encoding |-> "none", source |-> 1, scalar |-> offsets,
     line_column |-> << >>, returned |-> returned]

CallByteIndexesCrossesLines(pos1, pos2) ==
    /\ pos1 <= pos2 /\ pos2 <= str_len(LinesSource.content)
    /\ conv' = LinesQuery("byte_indexes_crosses_lines", <<pos1, pos2>>,
                   <<byte_indexes_crosses_lines(LinesSource.line_starts, pos1, pos2)>>)
    /\ UNCHANGED builder_vars
    /\ UNCHANGED <<fs, fs_log, global_ids, max_counter>>
    /\ UNCHANGED sink_vars

CallByteIndexesOnDifferentLines(pos1, pos2) ==
    /\ pos1 <= pos2 /\ pos2 <= str_len(LinesSource.content)
    /\ conv' = LinesQuery("byte_indexes_on_different_lines", <<pos1, pos2>>,
                   <<byte_indexes_on_different_lines(LinesSource.line_starts, pos1, pos2)>>)
    /\ UNCHANGED builder_vars
    /\ UNCHANGED <<fs, fs_log, global_ids, max_counter>>
    /\ UNCHANGED sink_vars

CallByteIndexesOnSameLine(pos1, pos2) ==
    /\ pos1 <= pos2 /\ pos2 <= str_len(LinesSource.content)
    /\ conv' = LinesQuery("byte_indexes_on_same_line", <<pos1, pos2>>,
                   byte_indexes_on_same_line(LinesSource.line_starts, pos1, pos2))
    /\ UNCHANGED builder_vars
    /\ UNCHANGED <<fs, fs_log, global_ids, max_counter>>
    /\ UNCHANGED sink_vars

CallGetLineAndColumnPosIsOn(pos) ==
    /\ conv' = LinesQuery("get_line_and_column_pos_is_on", <<pos>>,
                   get_line_and_column_pos_is_on(LinesSource.line_starts, pos))
    /\ UNCHANGED builder_vars
    /\ UNCHANGED <<fs, fs_log, global_ids, max_counter>>
    /\ UNCHANGED sink_vars

CallLineIndex(byte_index) ==
    /\ conv' = LinesQuery("line_index", <<byte_index>>,
                   <<line_index(LinesSource.line_starts, byte_index)>>)
    /\ UNCHANGED builder_vars
    /\ UNCHANGED <<fs, fs_log, global_ids, max_counter>>
    /\ UNCHANGED sink_vars

LinesInit ==
    /\ source_map = new
    /\ out = << >>
    /\ via = "SourceMap"
    /\ overflow_checks = "unobserved"
    /\ panicked = FALSE
    /\ calls = << >>
    /\ result = None
    /\ vlq = [value |-> isize(0), before |-> << >>, after |-> None]
    /\ fs_log = FsLog(<<Some(1)>>)
    /\ global_ids = SourceIdsInit
    /\ conv = NoConversion
    /\ max_counter = MaxCounterFresh(0)
    /\ SinkInit
    /\ \E content \in LinesContents :
          LET registered == new_source_id_with_line_starts(MapFileStore_default,
                                                           Chars("a.ts"), content).store
          IN  \/ fs = registered
              \/ \E suffix \in LinesSuffixes :
                     fs = append_to_file(registered, 1, suffix).store

LinesNext ==
    \/ \E pos1, pos2 \in LinesOffsets : CallByteIndexesCrossesLines(pos1, pos2)
    \/ \E pos1, pos2 \in LinesOffsets : CallByteIndexesOnDifferentLines(pos1, pos2)
    \/ \E pos1, pos2 \in LinesOffsets : CallByteIndexesOnSameLine(pos1, pos2)
    \/ \E pos \in LinesOffsets : CallGetLineAndColumnPosIsOn(pos)
    \/ \E byte_index \in LinesOffsets : CallLineIndex(byte_index)

LinesSpec == LinesInit /\ [][LinesNext]_vars

\* The number of '\n' bytes in content[pos1..pos2].
NewLinesBetween(content, pos1, pos2) ==
    Cardinality({j \in (pos1 + 1)..pos2 : as_bytes(content)[j] = 10})

(***************************************************************************)
(* C32: for every source and all byte offsets p <= q <= content.len(),     *)
(* byte_indexes_crosses_lines(p, q) equals the number of '\n' bytes in     *)
(* content[p..q], and byte_indexes_on_different_lines(p, q) is true        *)
(* exactly when that number is greater than 0.                             *)
(***************************************************************************)
C32_CrossesCountsNewLines ==
    LET between == NewLinesBetween(LinesSource.content, conv.scalar[1], conv.scalar[2])
    IN  /\ conv.op = "byte_indexes_crosses_lines" => conv.returned = <<between>>
        /\ conv.op = "byte_indexes_on_different_lines" => conv.returned = <<between > 0>>

\* Both answers occur: a range with two line feeds, one that ends right after
\* a line feed, and one that ends right before one.
C32_Witness ==
    /\ conv.op = "byte_indexes_crosses_lines"
    /\ conv.returned = <<2>>
    /\ LinesSource.content = Chars("a\n\nb") \o Chars("c\n")
    /\ conv.scalar = <<1, 3>>

(***************************************************************************)
(* C33: for every source (single-line sources included) and all byte       *)
(* offsets p <= q <= content.len(), byte_indexes_on_same_line(p, q)        *)
(* returns a result without aborting, and it is true exactly when          *)
(* byte_indexes_crosses_lines(p, q) = 0, i.e. exactly when                 *)
(* byte_indexes_on_different_lines(p, q) is false.                         *)
(***************************************************************************)
C33_SameLineIsNoCrossing ==
    conv.op = "byte_indexes_on_same_line" =>
        /\ conv.returned # None
        /\ conv.returned[1]
              = (byte_indexes_crosses_lines(LinesSource.line_starts,
                                            conv.scalar[1], conv.scalar[2]) = 0)
        /\ conv.returned[1]
              = ~byte_indexes_on_different_lines(LinesSource.line_starts,
                                                 conv.scalar[1], conv.scalar[2])

\* The largest line (0-based) whose start is at or before pos.
LargestLineStartingBy(line_starts, pos) ==
    (CHOOSE i \in 1..Len(line_starts) :
        /\ line_starts[i] <= pos
        /\ \A j \in (i + 1)..Len(line_starts) : line_starts[j] > pos) - 1

(***************************************************************************)
(* C34: for every line-start index and every byte offset pos >= 0, the     *)
(* reverse linear scan of get_line_and_column_pos_is_on and the binary     *)
(* search of CodeSpanStore::line_index return the same line, namely the    *)
(* largest i with line_starts[i] <= pos, and the column returned with it   *)
(* is pos - line_starts[i].                                                *)
(***************************************************************************)
C34_ScanAndSearchAgree ==
    LET starts == LinesSource.line_starts
        pos == conv.scalar[1]
        line == LargestLineStartingBy(starts, pos)
    IN  /\ conv.op = "get_line_and_column_pos_is_on" =>
              /\ conv.returned = <<line, pos - starts[line + 1]>>
              /\ conv.returned[1] = line_index(starts, pos)
        /\ conv.op = "line_index" =>
              /\ conv.returned = <<line>>
              /\ conv.returned[1] = get_line_pos_is_on(starts, pos)

\* The binary search misses: the offset is inside a line that is neither
\* the first nor the last of four.
C34_Witness ==
    /\ conv.op = "line_index"
    /\ Len(LinesSource.line_starts) >= 4
    /\ binary_search(LinesSource.line_starts, conv.scalar[1], 0,
                     Len(LinesSource.line_starts))[1] = "Err"
    /\ conv.returned[1] \in 1..(Len(LinesSource.line_starts) - 2)

\* filesystem.rs:196-198
get_source_at_path(store, path) ==
    IF path \in DOMAIN store.mappings THEN Some(store.mappings[path]) ELSE None

(***************************************************************************)
(* C35: after change_file_path(from, to) on a path-indexed store in which  *)
(* from resolves to handle id, get_source_at_path(to) returns id,          *)
(* get_source_at_path(from) returns nothing, the stored path of source id  *)
(* is to, and its content, line starts and handle, as well as every other  *)
(* source, are unchanged.                                                  *)
(***************************************************************************)
C35_PathChanged ==
    [][\A from \in FsPaths, to \in FsPaths :
          (CallChangeFilePath(from, to) /\ get_source_at_path(fs, from) # None) =>
              LET id == get_source_at_path(fs, from)[1]
              IN  /\ get_source_at_path(fs', to) = Some(id)
                  /\ from # to => get_source_at_path(fs', from) = None
                  /\ fs'.sources[id].path = to
                  /\ fs'.sources[id].content = fs.sources[id].content
                  /\ fs'.sources[id].line_starts = fs.sources[id].line_starts
                  /\ Len(fs'.sources) = Len(fs.sources)
                  /\ \A other \in 1..Len(fs.sources) :
                        other # id => fs'.sources[other] = fs.sources[other]]_vars

(***************************************************************************)
(* C36: create_or_update_file_at_path(path, content): when path already    *)
(* resolves to a handle, that source's content becomes content, no new     *)
(* handle is allocated and every other source is unchanged; otherwise      *)
(* exactly one new handle is allocated for (path, content); in both cases  *)
(* get_source_at_path(path) afterwards resolves to a source whose content  *)
(* is content and whose line starts match it.                              *)
(***************************************************************************)
C36_CreateOrUpdate ==
    [][\A path \in FsPaths, content \in FsContents :
          CallCreateOrUpdateFileAtPath(path, content) =>
              /\ ~panicked'
              /\ IF get_source_at_path(fs, path) # None
                 THEN LET id == get_source_at_path(fs, path)[1]
                      IN  /\ fs'.sources[id].content = content
                          /\ Len(fs'.sources) = Len(fs.sources)
                          /\ fs_log'.allocated = fs_log.allocated
                          /\ \A other \in 1..Len(fs.sources) :
                                other # id => fs'.sources[other] = fs.sources[other]
                 ELSE /\ Len(fs'.sources) = Len(fs.sources) + 1
                      /\ fs_log'.allocated
                            = Append(fs_log.allocated, Some(Len(fs.sources) + 1))
                      /\ SubSeq(fs'.sources, 1, Len(fs.sources)) = fs.sources
                      /\ fs'.sources[Len(fs'.sources)].path = path
              /\ get_source_at_path(fs', path) # None
              /\ LET resolved == fs'.sources[get_source_at_path(fs', path)[1]]
                 IN  /\ resolved.content = content
                     /\ resolved.line_starts = LineStarts_new(content)]_vars

(***************************************************************************)
(* C37: once halt() returns true on a bounded counter, further push,       *)
(* push_str, push_new_line and push_str_contains_new_line calls have no    *)
(* effect on the counter's state.                                          *)
(***************************************************************************)
MaxCounterAppends ==
    \/ \E chr \in MaxCounterChars : CallMaxCounterPush(chr)
    \/ CallMaxCounterPushNewLine
    \/ \E string \in MaxCounterStrings : CallMaxCounterPushStr(string)
    \/ \E string \in MaxCounterLines : CallMaxCounterPushStrContainsNewLine(string)

C37_NoEffectAfterHalt ==
    [][(max_counter.halted /\ halt(max_counter.counter) /\ MaxCounterAppends) =>
          max_counter'.counter = max_counter.counter]_vars

====
